---- MODULE Spec2Model ----
(***************************************************************************)
(* A model of the cuet crate: the RIFF/WAVE chunk reader (WaveCursor), the *)
(* cue-point and labeled-text codecs, and the in-place append engine.      *)
(*                                                                         *)
(* Numbers.  u32/u64/usize values are carried as five base-65536 digits,   *)
(* least significant first (80 bits), because TLC's own integers stop at   *)
(* 2^31-1 and the crate's checked arithmetic is decided exactly at the     *)
(* 2^32 boundary.  Two such values are equal iff they are the same tuple.  *)
(*                                                                         *)
(* Stream.  The byte stream is std::io::Cursor over a Vec<u8>, the stream  *)
(* the crate's tests use: a failed read_exact leaves the position at the   *)
(* end of the data, a seek may go past the end, a write past the end fills *)
(* the gap with zeros.                                                     *)
(***************************************************************************)
EXTENDS Integers, Sequences, FiniteSets, TLC

----------------------------------------------------------------------------
(* Bounds of the model                                                     *)

MaxAppends == 2

----------------------------------------------------------------------------
(* Program constants                                                       *)

CHUNK_HEAD_SZ == 8
CUE_SZ == 24
LABELED_TEXT_MIN_SZ == 20

----------------------------------------------------------------------------
(* Fixed-width unsigned arithmetic on base-65536 digit tuples              *)

Base == 256 * 256

B(i) == <<i % Base, i \div Base, 0, 0, 0>>

ToInt(a) == a[1] + Base * a[2]

BAdd(a, b) ==
    LET s1 == a[1] + b[1]
        s2 == a[2] + b[2] + (s1 \div Base)
        s3 == a[3] + b[3] + (s2 \div Base)
        s4 == a[4] + b[4] + (s3 \div Base)
        s5 == a[5] + b[5] + (s4 \div Base)
    IN  <<s1 % Base, s2 % Base, s3 % Base, s4 % Base, s5 % Base>>

BMul(a, k) ==
    LET s1 == a[1] * k
        s2 == a[2] * k + (s1 \div Base)
        s3 == a[3] * k + (s2 \div Base)
        s4 == a[4] * k + (s3 \div Base)
        s5 == a[5] * k + (s4 \div Base)
    IN  <<s1 % Base, s2 % Base, s3 % Base, s4 % Base, s5 % Base>>

BLess(a, b) ==
    \E i \in 1..5 : a[i] < b[i] /\ \A j \in (i+1)..5 : a[j] = b[j]

BLeq(a, b) == a = b \/ BLess(a, b)

\* a - b for b <= a
BSub(a, b) ==
    LET d1 == a[1] - b[1]
        w1 == IF d1 < 0 THEN 1 ELSE 0
        d2 == a[2] - b[2] - w1
        w2 == IF d2 < 0 THEN 1 ELSE 0
        d3 == a[3] - b[3] - w2
        w3 == IF d3 < 0 THEN 1 ELSE 0
        d4 == a[4] - b[4] - w3
        w4 == IF d4 < 0 THEN 1 ELSE 0
        d5 == a[5] - b[5] - w4
    IN  <<d1 + w1 * Base, d2 + w2 * Base, d3 + w3 * Base, d4 + w4 * Base, d5>>

None == <<>>

FitsU32(a) == a[3] = 0 /\ a[4] = 0 /\ a[5] = 0
FitsU64(a) == a[5] = 0

u32_try_from(a) == IF a /= None /\ FitsU32(a) THEN a ELSE None

u32_checked_add(a, b) ==
    IF a = None THEN None
    ELSE IF FitsU32(BAdd(a, b)) THEN BAdd(a, b) ELSE None

usize_checked_add(a, b) ==
    IF a = None THEN None
    ELSE IF FitsU64(BAdd(a, b)) THEN BAdd(a, b) ELSE None

usize_checked_mul(a, k) ==
    IF a = None THEN None
    ELSE IF FitsU64(BMul(a, k)) THEN BMul(a, k) ELSE None

u32_from_le_bytes(bs) == <<bs[1] + 256 * bs[2], bs[3] + 256 * bs[4], 0, 0, 0>>

u32_to_le_bytes(a) == <<a[1] % 256, a[1] \div 256, a[2] % 256, a[2] \div 256>>

u16_from_le_bytes(bs) == bs[1] + 256 * bs[2]

u16_to_le_bytes(v) == <<v % 256, v \div 256>>

IsOdd(a) == a[1] % 2 = 1

----------------------------------------------------------------------------
(* Four-byte tags                                                          *)

TagRIFF == <<82, 73, 70, 70>>
TagWAVE == <<87, 65, 86, 69>>
TagFmt  == <<102, 109, 116, 32>>
TagData == <<100, 97, 116, 97>>
TagCue  == <<99, 117, 101, 32>>
TagLIST == <<76, 73, 83, 84>>
TagAdtl == <<97, 100, 116, 108>>
TagLtxt == <<108, 116, 120, 116>>
TagMark == <<109, 97, 114, 107>>
TagJunk == <<74, 85, 78, 75>>
Blank2  == <<32, 32>>

Zeros(n) == [i \in 1..n |-> 0]

RECURSIVE Flatten(_)
Flatten(ss) == IF ss = <<>> THEN <<>> ELSE Head(ss) \o Flatten(Tail(ss))

----------------------------------------------------------------------------
(* std::io::Cursor<Vec<u8>>: data d, position p (a digit tuple)            *)

\* read_exact of n bytes
ReadExact(d, p, n) ==
    IF n = B(0)
    THEN [ok |-> TRUE, pos |-> p, bytes |-> <<>>]
    ELSE IF BLeq(BAdd(p, n), B(Len(d)))
         THEN [ok |-> TRUE, pos |-> BAdd(p, n),
               bytes |-> SubSeq(d, ToInt(p) + 1, ToInt(p) + ToInt(n))]
         ELSE [ok |-> FALSE, pos |-> B(Len(d)), bytes |-> <<>>]

\* write_all of bs (non-empty) at p
WriteAll(d, p, bs) ==
    LET at   == ToInt(p)
        fill == IF at > Len(d) THEN d \o Zeros(at - Len(d)) ELSE d
        endw == at + Len(bs)
        newd == SubSeq(fill, 1, at) \o bs \o
                (IF endw < Len(fill) THEN SubSeq(fill, endw + 1, Len(fill))
                 ELSE <<>>)
    IN  IF bs = <<>> THEN [data |-> d, pos |-> p]
        ELSE [data |-> newd, pos |-> B(endw)]

----------------------------------------------------------------------------
(* Chunk head codec                                                        *)

NoHead == [tag |-> <<>>, size |-> <<>>]

\* ChunkHead::parse: two read_exact calls of four bytes each
ChunkHead_parse(d, p) ==
    LET Size(r1, r2) ==
            IF ~r2.ok THEN [ok |-> FALSE, pos |-> r2.pos, head |-> NoHead]
            ELSE [ok |-> TRUE, pos |-> r2.pos,
                  head |-> [tag |-> r1.bytes,
                            size |-> u32_from_le_bytes(r2.bytes)]]
        Tag(r1) ==
            IF ~r1.ok THEN [ok |-> FALSE, pos |-> r1.pos, head |-> NoHead]
            ELSE Size(r1, ReadExact(d, r1.pos, B(4)))
    IN  Tag(ReadExact(d, p, B(4)))

ChunkHead_as_bytes(h) == h.tag \o u32_to_le_bytes(h.size)

----------------------------------------------------------------------------
(* Cue point codec                                                         *)

CuePoint_parse(bytes) ==
    [id            |-> u32_from_le_bytes(SubSeq(bytes, 1, 4)),
     position      |-> u32_from_le_bytes(SubSeq(bytes, 5, 8)),
     data_tag      |-> SubSeq(bytes, 9, 12),
     chunk_start   |-> u32_from_le_bytes(SubSeq(bytes, 13, 16)),
     block_start   |-> u32_from_le_bytes(SubSeq(bytes, 17, 20)),
     sample_offset |-> u32_from_le_bytes(SubSeq(bytes, 21, 24))]

CuePoint_from_sample_offset(id, offset) ==
    [id |-> id, position |-> B(0), data_tag |-> TagData,
     chunk_start |-> B(0), block_start |-> B(0), sample_offset |-> offset]

\* an encoder that writes block_start before chunk_start
CuePoint_as_bytes_Swapped(c) ==
    u32_to_le_bytes(c.id) \o u32_to_le_bytes(c.position) \o c.data_tag \o
    u32_to_le_bytes(c.block_start) \o u32_to_le_bytes(c.chunk_start) \o
    u32_to_le_bytes(c.sample_offset)

CuePoint_as_bytes(c) ==
    u32_to_le_bytes(c.id) \o u32_to_le_bytes(c.position) \o c.data_tag \o
    u32_to_le_bytes(c.chunk_start) \o u32_to_le_bytes(c.block_start) \o
    u32_to_le_bytes(c.sample_offset)

\* a decoder that takes the records from the start of the buffer
parse_cue_points_NoSkip(bytes) ==
    IF Len(bytes) < 4 THEN [panic |-> TRUE, cues |-> <<>>]
    ELSE LET n == Len(bytes) \div CUE_SZ
         IN  [panic |-> FALSE,
              cues  |-> [i \in 1..n |->
                CuePoint_parse(SubSeq(bytes, (i - 1) * CUE_SZ + 1, i * CUE_SZ))]]

\* parse_cue_points: the slice bytes[4..] panics when fewer than 4 bytes are
\* given (panic = TRUE); chunks_exact(CUE_SZ) drops a trailing partial record
parse_cue_points(bytes) ==
    IF Len(bytes) < 4 THEN [panic |-> TRUE, cues |-> <<>>]
    ELSE LET rest == SubSeq(bytes, 5, Len(bytes))
             n    == Len(rest) \div CUE_SZ
         IN  [panic |-> FALSE,
              cues  |-> [i \in 1..n |->
                CuePoint_parse(SubSeq(rest, (i - 1) * CUE_SZ + 1, i * CUE_SZ))]]

----------------------------------------------------------------------------
(* Labeled text codec.  A String is carried as its UTF-8 bytes.            *)

Replacement == <<239, 191, 189>>

IsCont(b) == b >= 128 /\ b <= 191

\* lower and upper limit of the second byte after a 3- or 4-byte lead
SecondLo(b) == IF b = 224 THEN 160 ELSE IF b = 240 THEN 144 ELSE 128
SecondHi(b) == IF b = 237 THEN 159 ELSE IF b = 244 THEN 143 ELSE 191

Utf8Width(b) ==
    IF b < 128 THEN 1
    ELSE IF b >= 194 /\ b <= 223 THEN 2
    ELSE IF b >= 224 /\ b <= 239 THEN 3
    ELSE IF b >= 240 /\ b <= 244 THEN 4
    ELSE 0

\* number of leading bytes of bs that form one valid character (valid = TRUE)
\* or one maximal invalid sequence (valid = FALSE)
Utf8Step(bs) ==
    LET b == bs[1]
        w == Utf8Width(b)
        n == Len(bs)
        ok2 == n >= 2 /\ (IF w = 2 THEN IsCont(bs[2])
                          ELSE bs[2] >= SecondLo(b) /\ bs[2] <= SecondHi(b))
        ok3 == n >= 3 /\ IsCont(bs[3])
        ok4 == n >= 4 /\ IsCont(bs[4])
    IN  IF w = 1 THEN [valid |-> TRUE, len |-> 1]
        ELSE IF w = 0 \/ ~ok2 THEN [valid |-> FALSE, len |-> 1]
        ELSE IF w = 2 THEN [valid |-> TRUE, len |-> 2]
        ELSE IF ~ok3 THEN [valid |-> FALSE, len |-> 2]
        ELSE IF w = 3 THEN [valid |-> TRUE, len |-> 3]
        ELSE IF ~ok4 THEN [valid |-> FALSE, len |-> 3]
        ELSE [valid |-> TRUE, len |-> 4]

\* String::from_utf8_lossy
RECURSIVE from_utf8_lossy(_)
from_utf8_lossy(bs) ==
    IF bs = <<>> THEN <<>>
    ELSE LET st == Utf8Step(bs)
             rest == SubSeq(bs, st.len + 1, Len(bs))
         IN  (IF st.valid THEN SubSeq(bs, 1, st.len) ELSE Replacement)
             \o from_utf8_lossy(rest)

\* LabeledText::parse, for Len(bytes) >= LABELED_TEXT_MIN_SZ
LabeledText_parse(bytes) ==
    [cue_id        |-> u32_from_le_bytes(SubSeq(bytes, 1, 4)),
     sample_length |-> u32_from_le_bytes(SubSeq(bytes, 5, 8)),
     purpose_id    |-> SubSeq(bytes, 9, 12),
     country       |-> SubSeq(bytes, 13, 14),
     language      |-> SubSeq(bytes, 15, 16),
     dialect       |-> SubSeq(bytes, 17, 18),
     code_page     |-> u16_from_le_bytes(SubSeq(bytes, 19, 20)),
     text          |-> from_utf8_lossy(SubSeq(bytes, 21, Len(bytes)))]

LabeledText_as_bytes(l) ==
    u32_to_le_bytes(l.cue_id) \o u32_to_le_bytes(l.sample_length) \o
    l.purpose_id \o l.country \o l.language \o l.dialect \o
    u16_to_le_bytes(l.code_page) \o l.text

LabeledText_from_cue_length(cue_id, sample_length) ==
    [cue_id |-> cue_id, sample_length |-> sample_length,
     purpose_id |-> TagMark, country |-> Blank2, language |-> Blank2,
     dialect |-> Blank2, code_page |-> 0, text |-> <<>>]

\* a loop that keeps an entry only when its size exceeds the minimum
RECURSIVE ExtractLoop_Strict(_, _)
ExtractLoop_Strict(slice, acc) ==
    IF Len(slice) < 8 THEN acc
    ELSE LET sub_chunk_len == u32_from_le_bytes(SubSeq(slice, 5, 8))
             sub_chunk_tag == SubSeq(slice, 1, 4)
             body == SubSeq(slice, 9, Len(slice))
             fits == BLeq(sub_chunk_len, B(Len(body)))
             keep == sub_chunk_tag = TagLtxt
                     /\ BLess(B(LABELED_TEXT_MIN_SZ), sub_chunk_len)
                     /\ fits
             \* &slice[..sub_chunk_len] and the unwraps of LabeledText::parse
             in_bounds == keep => (fits /\ BLeq(B(LABELED_TEXT_MIN_SZ),
                                                sub_chunk_len))
             take == IF fits THEN ToInt(sub_chunk_len) ELSE Len(body)
             after == SubSeq(body, take + 1, Len(body))
             next == IF IsOdd(sub_chunk_len) /\ after /= <<>>
                     THEN Tail(after) ELSE after
         IN  IF ~in_bounds THEN [acc EXCEPT !.panic = TRUE]
             ELSE ExtractLoop_Strict(next,
                    [ltxts |-> IF keep
                               THEN Append(acc.ltxts,
                                      LabeledText_parse(SubSeq(body, 1, take)))
                               ELSE acc.ltxts,
                     panic |-> acc.panic,
                     steps |-> Append(acc.steps, [before |-> Len(slice),
                                                  after  |-> Len(next)])])

\* a loop that takes an ltxt entry without comparing its size with what
\* is left of the buffer
RECURSIVE ExtractLoop_NoFit(_, _)
ExtractLoop_NoFit(slice, acc) ==
    IF Len(slice) < 8 THEN acc
    ELSE LET sub_chunk_len == u32_from_le_bytes(SubSeq(slice, 5, 8))
             sub_chunk_tag == SubSeq(slice, 1, 4)
             body == SubSeq(slice, 9, Len(slice))
             fits == BLeq(sub_chunk_len, B(Len(body)))
             keep == sub_chunk_tag = TagLtxt
                     /\ BLeq(B(LABELED_TEXT_MIN_SZ), sub_chunk_len)
             \* &slice[..sub_chunk_len] and the unwraps of LabeledText::parse
             in_bounds == keep => (fits /\ BLeq(B(LABELED_TEXT_MIN_SZ),
                                                sub_chunk_len))
             take == IF fits THEN ToInt(sub_chunk_len) ELSE Len(body)
             after == SubSeq(body, take + 1, Len(body))
             next == IF IsOdd(sub_chunk_len) /\ after /= <<>>
                     THEN Tail(after) ELSE after
         IN  IF ~in_bounds THEN [acc EXCEPT !.panic = TRUE]
             ELSE ExtractLoop_NoFit(next,
                    [ltxts |-> IF keep
                               THEN Append(acc.ltxts,
                                      LabeledText_parse(SubSeq(body, 1, take)))
                               ELSE acc.ltxts,
                     panic |-> acc.panic,
                     steps |-> Append(acc.steps, [before |-> Len(slice),
                                                  after  |-> Len(next)])])

\* the while loop of extract_labeled_text_from_list over the remaining slice;
\* acc.steps keeps, per iteration, the length of the slice before and after
RECURSIVE ExtractLoop(_, _)
ExtractLoop(slice, acc) ==
    IF Len(slice) < 8 THEN acc
    ELSE LET sub_chunk_len == u32_from_le_bytes(SubSeq(slice, 5, 8))
             sub_chunk_tag == SubSeq(slice, 1, 4)
             body == SubSeq(slice, 9, Len(slice))
             fits == BLeq(sub_chunk_len, B(Len(body)))
             keep == sub_chunk_tag = TagLtxt
                     /\ BLeq(B(LABELED_TEXT_MIN_SZ), sub_chunk_len)
                     /\ fits
             \* &slice[..sub_chunk_len] and the unwraps of LabeledText::parse
             in_bounds == keep => (fits /\ BLeq(B(LABELED_TEXT_MIN_SZ),
                                                sub_chunk_len))
             take == IF fits THEN ToInt(sub_chunk_len) ELSE Len(body)
             after == SubSeq(body, take + 1, Len(body))
             next == IF IsOdd(sub_chunk_len) /\ after /= <<>>
                     THEN Tail(after) ELSE after
         IN  IF ~in_bounds THEN [acc EXCEPT !.panic = TRUE]
             ELSE ExtractLoop(next,
                    [ltxts |-> IF keep
                               THEN Append(acc.ltxts,
                                      LabeledText_parse(SubSeq(body, 1, take)))
                               ELSE acc.ltxts,
                     panic |-> acc.panic,
                     steps |-> Append(acc.steps, [before |-> Len(slice),
                                                  after  |-> Len(next)])])

\* extract_labeled_text_from_list: the list returned, whether an index went
\* out of bounds on the way, and the iterations of the loop
extract_labeled_text_from_list(bytes) ==
    IF Len(bytes) < 4 THEN [ltxts |-> <<>>, panic |-> FALSE, steps |-> <<>>]
    ELSE ExtractLoop(SubSeq(bytes, 5, Len(bytes)),
                     [ltxts |-> <<>>, panic |-> FALSE, steps |-> <<>>])

----------------------------------------------------------------------------
(* Container head and the append engine                                    *)

\* read_riff_head: res is "Ok", "Io" (a read failed) or "Wave" (msg says why)
read_riff_head(d, p) ==
    LET Form(h, w) ==
            IF ~w.ok
            THEN [res |-> "Io", msg |-> "eof", pos |-> w.pos, head |-> NoHead]
            ELSE IF h.head.tag /= TagRIFF \/ w.bytes /= TagWAVE
            THEN [res |-> "Wave", msg |-> "Not a WAVE file", pos |-> w.pos,
                  head |-> NoHead]
            ELSE IF IsOdd(h.head.size)
            THEN [res |-> "Wave", msg |-> "Malformed file: Odd RIFF size", pos |-> w.pos,
                  head |-> NoHead]
            ELSE [res |-> "Ok", msg |-> "", pos |-> w.pos, head |-> h.head]
        Parsed(h) ==
            IF ~h.ok
            THEN [res |-> "Io", msg |-> "eof", pos |-> h.pos, head |-> NoHead]
            ELSE Form(h, ReadExact(d, h.pos, B(4)))
    IN  Parsed(ChunkHead_parse(d, p))

pad_size_16(size) ==
    IF IsOdd(size) THEN usize_checked_add(size, B(1)) ELSE size

CHUNK_TOO_BIG == "Chunk size exceeds bounds of 32-bit integer"

\* chunk_size of append_cue_chunk, from cues.len()
CueChunkSize(len) ==
    u32_try_from(usize_checked_add(usize_checked_mul(len, CUE_SZ), B(4)))

\* new_size that leaves out the 8 bytes of the new chunk head
NewRiffSize_NoHead(chunk_size, old_size) ==
    IF chunk_size = None THEN None ELSE u32_checked_add(chunk_size, old_size)

\* new_size of both append functions
NewRiffSize(chunk_size, old_size) ==
    LET withHead == u32_checked_add(chunk_size, B(CHUNK_HEAD_SZ))
    IN  IF withHead = None THEN None ELSE u32_checked_add(withHead, old_size)

\* the try_fold of append_label_chunk over the remaining records
RECURSIVE LabelFold(_, _)
LabelFold(ltxts, accum) ==
    IF ltxts = <<>> THEN accum
    ELSE LET element == usize_checked_add(
                            pad_size_16(B(Len(Head(ltxts).text))),
                            B(LABELED_TEXT_MIN_SZ))
             sum == usize_checked_add(
                        IF element = None THEN None
                        ELSE usize_checked_add(element, accum),
                        B(CHUNK_HEAD_SZ))
         IN  IF sum = None THEN None ELSE LabelFold(Tail(ltxts), sum)

\* chunk_size of append_label_chunk
LabelChunkSize(ltxts) ==
    u32_try_from(usize_checked_add(LabelFold(ltxts, B(0)), B(4)))

\* a record loop that writes no pad byte after a sub-chunk of odd size
LabelSubChunk_NoPad(ltxt) ==
    LET sub_chunk_sz == B(Len(ltxt.text) + LABELED_TEXT_MIN_SZ)
    IN  ChunkHead_as_bytes([tag |-> TagLtxt, size |-> sub_chunk_sz])
        \o LabeledText_as_bytes(ltxt)

\* the bytes written per record by the loop of append_label_chunk
LabelSubChunk(ltxt) ==
    LET sub_chunk_sz == B(Len(ltxt.text) + LABELED_TEXT_MIN_SZ)
    IN  ChunkHead_as_bytes([tag |-> TagLtxt, size |-> sub_chunk_sz])
        \o LabeledText_as_bytes(ltxt)
        \o (IF IsOdd(sub_chunk_sz) THEN <<0>> ELSE <<>>)

\* an append that patches the size field with the wrapped sum before it
\* checks the sizes
AppendAt_PatchFirst(d, p, tag, chunk_size, payload) ==
    LET Done(w) == [res |-> "Ok", msg |-> "", data |-> w.data, pos |-> w.pos]
        Payload(w) == Done(WriteAll(w.data, w.pos, payload))
        Chunk(w, old_size) ==
            Payload(WriteAll(w.data, BAdd(w.pos, old_size),
                             ChunkHead_as_bytes([tag |-> tag,
                                                 size |-> chunk_size])))
        Sized(w, old_size, new_size) ==
            IF chunk_size = None \/ new_size = None
            THEN [res |-> "Wave", msg |-> CHUNK_TOO_BIG, data |-> w.data,
                  pos |-> w.pos]
            ELSE Chunk(w, old_size)
        Patch(rh, old_size) ==
            Sized(WriteAll(d, BSub(rh.pos, B(8)),
                           u32_to_le_bytes(
                               BAdd(BAdd(IF chunk_size = None THEN B(0)
                                         ELSE chunk_size,
                                         B(CHUNK_HEAD_SZ)), old_size))),
                  old_size, NewRiffSize(chunk_size, old_size))
        Read(rh) ==
            IF rh.res /= "Ok"
            THEN [res |-> rh.res, msg |-> rh.msg, data |-> d, pos |-> rh.pos]
            ELSE Patch(rh, rh.head.size)
    IN  Read(read_riff_head(d, p))

\* an append that writes the new chunk right after the size field, without
\* seeking to the old end of the container
AppendAt_NoSeek(d, p, tag, chunk_size, payload) ==
    LET Done(w) == [res |-> "Ok", msg |-> "", data |-> w.data, pos |-> w.pos]
        Payload(w) == Done(WriteAll(w.data, w.pos, payload))
        Chunk(w) ==
            Payload(WriteAll(w.data, w.pos,
                             ChunkHead_as_bytes([tag |-> tag,
                                                 size |-> chunk_size])))
        Sized(rh, new_size) ==
            IF chunk_size = None \/ new_size = None
            THEN [res |-> "Wave", msg |-> CHUNK_TOO_BIG, data |-> d,
                  pos |-> rh.pos]
            ELSE Chunk(WriteAll(d, BSub(rh.pos, B(8)),
                                u32_to_le_bytes(new_size)))
        Read(rh) ==
            IF rh.res /= "Ok"
            THEN [res |-> rh.res, msg |-> rh.msg, data |-> d, pos |-> rh.pos]
            ELSE Sized(rh, NewRiffSize(chunk_size, rh.head.size))
    IN  Read(read_riff_head(d, p))

\* an append that seeks to the old size counted from the start of the
\* stream, not from the end of the size field
AppendAt_SeekFromStart(d, p, tag, chunk_size, payload) ==
    LET Done(w) == [res |-> "Ok", msg |-> "", data |-> w.data, pos |-> w.pos]
        Payload(w) == Done(WriteAll(w.data, w.pos, payload))
        Chunk(w, old_size) ==
            Payload(WriteAll(w.data, old_size,
                             ChunkHead_as_bytes([tag |-> tag,
                                                 size |-> chunk_size])))
        Sized(rh, new_size) ==
            IF chunk_size = None \/ new_size = None
            THEN [res |-> "Wave", msg |-> CHUNK_TOO_BIG, data |-> d,
                  pos |-> rh.pos]
            ELSE Chunk(WriteAll(d, BSub(rh.pos, B(8)),
                                u32_to_le_bytes(new_size)),
                       rh.head.size)
        Read(rh) ==
            IF rh.res /= "Ok"
            THEN [res |-> rh.res, msg |-> rh.msg, data |-> d, pos |-> rh.pos]
            ELSE Sized(rh, NewRiffSize(chunk_size, rh.head.size))
    IN  Read(read_riff_head(d, p))

\* the part shared by both append functions once tag, chunk_size and the
\* payload bytes are known: read the head, check the sizes, patch the size
\* field, seek to the old end of the container, write head and payload
AppendAt(d, p, tag, chunk_size, payload) ==
    LET Done(w) == [res |-> "Ok", msg |-> "", data |-> w.data, pos |-> w.pos]
        Payload(w) == Done(WriteAll(w.data, w.pos, payload))
        Chunk(w, old_size) ==
            Payload(WriteAll(w.data, BAdd(w.pos, old_size),
                             ChunkHead_as_bytes([tag |-> tag,
                                                 size |-> chunk_size])))
        Sized(rh, new_size) ==
            IF chunk_size = None \/ new_size = None
            THEN [res |-> "Wave", msg |-> CHUNK_TOO_BIG, data |-> d,
                  pos |-> rh.pos]
            ELSE Chunk(WriteAll(d, BSub(rh.pos, B(8)),
                                u32_to_le_bytes(new_size)),
                       rh.head.size)
        Read(rh) ==
            IF rh.res /= "Ok"
            THEN [res |-> rh.res, msg |-> rh.msg, data |-> d, pos |-> rh.pos]
            ELSE Sized(rh, NewRiffSize(chunk_size, rh.head.size))
    IN  Read(read_riff_head(d, p))

\* append_cue_chunk; cues = [len |-> cues.len(), items |-> the records]
append_cue_chunk(d, p, cues) ==
    AppendAt(d, p, TagCue, CueChunkSize(cues.len),
             u32_to_le_bytes(cues.len)
             \o Flatten([i \in 1..Len(cues.items) |->
                           CuePoint_as_bytes(cues.items[i])]))

append_label_chunk(d, p, labeled_texts) ==
    AppendAt(d, p, TagLIST, LabelChunkSize(labeled_texts),
             TagAdtl
             \o Flatten([i \in 1..Len(labeled_texts) |->
                           LabelSubChunk(labeled_texts[i])]))

----------------------------------------------------------------------------
(* WaveCursor                                                              *)

\* a constructor that leaves the 8 head bytes out of wave_end
WaveCursor_new_NoHead(d, p) ==
    LET Failed(res, msg, at) ==
            [res |-> res, msg |-> msg, pos |-> at, head |-> NoHead,
             wave_start |-> None, wave_end |-> None, first_chunk_pos |-> None]
        Bounded(rh, we) ==
            IF we = None
            THEN Failed("Wave", "WAVE size too large for file", rh.pos)
            ELSE [res |-> "Ok", msg |-> "", pos |-> rh.pos, head |-> rh.head,
                  wave_start |-> p, wave_end |-> we,
                  first_chunk_pos |-> rh.pos]
        Read(rh) ==
            IF rh.res /= "Ok" THEN Failed(rh.res, rh.msg, rh.pos)
            ELSE Bounded(rh, usize_checked_add(p, rh.head.size))
    IN  Read(read_riff_head(d, p))

\* WaveCursor::new
WaveCursor_new(d, p) ==
    LET Failed(res, msg, at) ==
            [res |-> res, msg |-> msg, pos |-> at, head |-> NoHead,
             wave_start |-> None, wave_end |-> None, first_chunk_pos |-> None]
        Bounded(rh, we) ==
            IF we = None
            THEN Failed("Wave", "WAVE size too large for file", rh.pos)
            ELSE [res |-> "Ok", msg |-> "", pos |-> rh.pos, head |-> rh.head,
                  wave_start |-> p, wave_end |-> we,
                  first_chunk_pos |-> rh.pos]
        Read(rh) ==
            IF rh.res /= "Ok" THEN Failed(rh.res, rh.msg, rh.pos)
            ELSE Bounded(rh, usize_checked_add(
                                 usize_checked_add(p, B(CHUNK_HEAD_SZ)),
                                 rh.head.size))
    IN  Read(read_riff_head(d, p))

NoTag == <<>>

\* a loop that skips no pad byte after a chunk it passes over
RECURSIVE read_next_chunk_NoPad(_, _, _, _)
read_next_chunk_NoPad(d, p, wend, tag) ==
    LET Failed(at) == [kind |-> "Io", pos |-> at, tag |-> <<>>,
                       payload |-> <<>>, at |-> None, trail |-> <<>>]
        Consumed(h, next) == [at |-> p, size |-> h.size, next |-> next]
        Taken(h, rd, next) ==
            IF ~rd.ok THEN Failed(rd.pos)
            ELSE [kind |-> "Some", pos |-> next, tag |-> h.tag,
                  payload |-> rd.bytes, at |-> p,
                  trail |-> <<Consumed(h, next)>>]
        Rest(h, next, r) == [r EXCEPT !.trail = <<Consumed(h, next)>> \o @]
        Skipped(h, next) == Rest(h, next, read_next_chunk_NoPad(d, next, wend, tag))
        Read(h, rd, pad) == Taken(h, rd, BAdd(rd.pos, pad))
        Parsed(hp, pad) ==
            IF ~hp.ok THEN Failed(hp.pos)
            ELSE IF tag = NoTag \/ hp.head.tag = tag
            THEN Read(hp.head, ReadExact(d, hp.pos, hp.head.size), pad)
            ELSE Skipped(hp.head, BAdd(hp.pos, hp.head.size))
        Pad(hp) ==
            Parsed(hp, IF hp.ok /\ IsOdd(hp.head.size) THEN B(1) ELSE B(0))
    IN  IF ~BLess(p, wend)
        THEN [kind |-> "None", pos |-> p, tag |-> <<>>, payload |-> <<>>,
              at |-> None, trail |-> <<>>]
        ELSE Pad(ChunkHead_parse(d, p))

\* a loop that skips a byte after every chunk, whatever its size
RECURSIVE read_next_chunk_PadAlways(_, _, _, _)
read_next_chunk_PadAlways(d, p, wend, tag) ==
    LET Failed(at) == [kind |-> "Io", pos |-> at, tag |-> <<>>,
                       payload |-> <<>>, at |-> None, trail |-> <<>>]
        Consumed(h, next) == [at |-> p, size |-> h.size, next |-> next]
        Taken(h, rd, next) ==
            IF ~rd.ok THEN Failed(rd.pos)
            ELSE [kind |-> "Some", pos |-> next, tag |-> h.tag,
                  payload |-> rd.bytes, at |-> p,
                  trail |-> <<Consumed(h, next)>>]
        Rest(h, next, r) == [r EXCEPT !.trail = <<Consumed(h, next)>> \o @]
        Skipped(h, next) == Rest(h, next, read_next_chunk_PadAlways(d, next, wend, tag))
        Read(h, rd, pad) == Taken(h, rd, BAdd(rd.pos, pad))
        Parsed(hp, pad) ==
            IF ~hp.ok THEN Failed(hp.pos)
            ELSE IF tag = NoTag \/ hp.head.tag = tag
            THEN Read(hp.head, ReadExact(d, hp.pos, hp.head.size), pad)
            ELSE Skipped(hp.head, BAdd(BAdd(hp.pos, hp.head.size), pad))
        Pad(hp) ==
            Parsed(hp, IF hp.ok THEN B(1) ELSE B(0))
    IN  IF ~BLess(p, wend)
        THEN [kind |-> "None", pos |-> p, tag |-> <<>>, payload |-> <<>>,
              at |-> None, trail |-> <<>>]
        ELSE Pad(ChunkHead_parse(d, p))

\* a loop that runs while the position is at most wave_end
RECURSIVE read_next_chunk_AtEnd(_, _, _, _)
read_next_chunk_AtEnd(d, p, wend, tag) ==
    LET Failed(at) == [kind |-> "Io", pos |-> at, tag |-> <<>>,
                       payload |-> <<>>, at |-> None, trail |-> <<>>]
        Consumed(h, next) == [at |-> p, size |-> h.size, next |-> next]
        Taken(h, rd, next) ==
            IF ~rd.ok THEN Failed(rd.pos)
            ELSE [kind |-> "Some", pos |-> next, tag |-> h.tag,
                  payload |-> rd.bytes, at |-> p,
                  trail |-> <<Consumed(h, next)>>]
        Rest(h, next, r) == [r EXCEPT !.trail = <<Consumed(h, next)>> \o @]
        Skipped(h, next) == Rest(h, next, read_next_chunk_AtEnd(d, next, wend, tag))
        Read(h, rd, pad) == Taken(h, rd, BAdd(rd.pos, pad))
        Parsed(hp, pad) ==
            IF ~hp.ok THEN Failed(hp.pos)
            ELSE IF tag = NoTag \/ hp.head.tag = tag
            THEN Read(hp.head, ReadExact(d, hp.pos, hp.head.size), pad)
            ELSE Skipped(hp.head, BAdd(BAdd(hp.pos, hp.head.size), pad))
        Pad(hp) ==
            Parsed(hp, IF hp.ok /\ IsOdd(hp.head.size) THEN B(1) ELSE B(0))
    IN  IF BLess(wend, p)
        THEN [kind |-> "None", pos |-> p, tag |-> <<>>, payload |-> <<>>,
              at |-> None, trail |-> <<>>]
        ELSE Pad(ChunkHead_parse(d, p))

\* the while loop of WaveCursor::read_next_chunk; tag = NoTag is no filter.
\* at is the offset of the head of the returned chunk; trail lists the
\* chunks the call consumed (returned or skipped): where the head was,
\* the declared size, and the position the loop went on from.
RECURSIVE read_next_chunk(_, _, _, _)
read_next_chunk(d, p, wend, tag) ==
    LET Failed(at) == [kind |-> "Io", pos |-> at, tag |-> <<>>,
                       payload |-> <<>>, at |-> None, trail |-> <<>>]
        Consumed(h, next) == [at |-> p, size |-> h.size, next |-> next]
        Taken(h, rd, next) ==
            IF ~rd.ok THEN Failed(rd.pos)
            ELSE [kind |-> "Some", pos |-> next, tag |-> h.tag,
                  payload |-> rd.bytes, at |-> p,
                  trail |-> <<Consumed(h, next)>>]
        Rest(h, next, r) == [r EXCEPT !.trail = <<Consumed(h, next)>> \o @]
        Skipped(h, next) == Rest(h, next, read_next_chunk(d, next, wend, tag))
        Read(h, rd, pad) == Taken(h, rd, BAdd(rd.pos, pad))
        Parsed(hp, pad) ==
            IF ~hp.ok THEN Failed(hp.pos)
            ELSE IF tag = NoTag \/ hp.head.tag = tag
            THEN Read(hp.head, ReadExact(d, hp.pos, hp.head.size), pad)
            ELSE Skipped(hp.head, BAdd(BAdd(hp.pos, hp.head.size), pad))
        Pad(hp) ==
            Parsed(hp, IF hp.ok /\ IsOdd(hp.head.size) THEN B(1) ELSE B(0))
    IN  IF ~BLess(p, wend)
        THEN [kind |-> "None", pos |-> p, tag |-> <<>>, payload |-> <<>>,
              at |-> None, trail |-> <<>>]
        ELSE Pad(ChunkHead_parse(d, p))

----------------------------------------------------------------------------
(* Inputs: cue points, labeled texts and containers                        *)

cue1 == CuePoint_from_sample_offset(B(1), B(20))
cue2 == CuePoint_from_sample_offset(B(2), B(200))
cue3 == [id |-> B(3), position |-> B(7), data_tag |-> TagFmt,
         chunk_start |-> B(258), block_start |-> B(65537),
         sample_offset |-> <<772, 258, 0, 0, 0>>]

Slice(items) == [len |-> B(Len(items)), items |-> items]

\* a slice of 178956971 cue points (4 + 24 * len is 2^32 + 12): the append
\* consults only its length before it returns, so its items are not listed
HugeCues == [len |-> <<43691, 2730, 0, 0, 0>>, items |-> <<>>]

CueInputs == {Slice(<<cue3>>), Slice(<<cue1, cue2>>), HugeCues}

ltxtHello == [LabeledText_from_cue_length(B(1), B(269))
                EXCEPT !.text = <<104, 101, 108, 108, 111>>]
ltxtPlain == LabeledText_from_cue_length(B(13), B(1234))
ltxtFull  == [cue_id |-> B(2), sample_length |-> B(65536 + 3),
              purpose_id |-> TagJunk, country |-> <<85, 83>>,
              language |-> <<101, 110>>, dialect |-> <<1, 2>>,
              code_page |-> 1252, text |-> <<195, 169, 33>>]

LabelInputs == {<<>>, <<ltxtHello, ltxtPlain>>}

RealSize(n) == IF n % 2 = 1 THEN n + 1 ELSE n

\* a chunk as laid out in a file: declared size and the bytes after the head
Chunk(tag, size, body) == [tag |-> tag, size |-> size, body |-> body]

\* a chunk whose body is its payload plus the pad byte an odd size needs
Padded(tag, payload) ==
    Chunk(tag, Len(payload),
          payload \o (IF Len(payload) % 2 = 1 THEN <<0>> ELSE <<>>))

CueBody(items) ==
    u32_to_le_bytes(B(Len(items)))
    \o Flatten([i \in 1..Len(items) |-> CuePoint_as_bytes(items[i])])

fmtChunk  == Padded(TagFmt, <<1, 2, 3>>)
dataChunk == Padded(TagData, <<9, 8>>)
oddData   == Padded(TagData, <<5>>)
cueChunk  == Padded(TagCue, CueBody(<<cue1, cue2>>))
cueOne    == Padded(TagCue, CueBody(<<cue3>>))
cueShort  == Padded(TagCue, <<1, 0>>)
listChunk == Padded(TagLIST, TagAdtl \o LabelSubChunk(ltxtHello))

RECURSIVE ChunkBytes(_)
ChunkBytes(chunks) ==
    IF chunks = <<>> THEN <<>>
    ELSE LET c == Head(chunks)
         IN  c.tag \o u32_to_le_bytes(B(c.size)) \o c.body
             \o ChunkBytes(Tail(chunks))

\* the declared RIFF size of a container that holds exactly these chunks
RiffSizeOf(chunks) == 4 + Len(ChunkBytes(chunks))

\* a stream: prefix bytes, then RIFF head, form tag, chunks, trailing bytes
Stream(prefix, riff, size, form, chunks, trailer) ==
    [bytes  |-> prefix \o riff \o u32_to_le_bytes(size) \o form
                \o ChunkBytes(chunks) \o trailer,
     origin |-> Len(prefix),
     size   |-> size,
     chunks |-> chunks,
     exact  |-> /\ size = B(RiffSizeOf(chunks))
                /\ \A i \in DOMAIN chunks :
                      Len(chunks[i].body) = RealSize(chunks[i].size)]

Wave(prefix, chunks, trailer) ==
    Stream(prefix, TagRIFF, B(RiffSizeOf(chunks)), TagWAVE, chunks, trailer)

Prefix == <<7, 7, 7>>
Trailer == <<4, 4, 4, 4, 4, 4, 4, 4, 4, 4, 4, 4, 4, 4>>

\* containers whose chunks fill the declared size exactly
WellFormedStreams ==
    { Wave(Prefix, <<fmtChunk, oddData>>, <<>>),
      Wave(<<>>, <<fmtChunk, dataChunk, cueChunk>>, <<>>),
      Wave(<<>>, <<fmtChunk, cueChunk, dataChunk>>, <<>>),
      Wave(Prefix, <<cueChunk, fmtChunk, dataChunk>>, <<>>),
      Wave(<<>>, <<cueOne, oddData, cueChunk>>, <<>>),
      Wave(<<>>, <<cueShort, listChunk>>, <<>>),
      Wave(<<>>, <<>>, <<>>),
      Wave(Prefix, <<fmtChunk, dataChunk>>, Trailer) }

\* streams that are short, mislabelled, or lie about a size
MalformedStreams ==
    { Stream(<<>>, <<82, 73, 70, 88>>, B(14), TagWAVE, <<dataChunk>>, <<>>),
      Stream(<<>>, TagRIFF, B(14), <<87, 65, 86, 88>>, <<dataChunk>>, <<>>),
      Stream(Prefix, TagRIFF, B(13), TagWAVE, <<dataChunk>>, <<>>),
      Stream(<<>>, TagRIFF, <<65534, 65535, 0, 0, 0>>, TagWAVE,
             <<fmtChunk, dataChunk>>, <<>>),
      Stream(<<>>, TagRIFF, <<65524, 65535, 0, 0, 0>>, TagWAVE,
             <<dataChunk>>, <<>>),
      Stream(<<>>, TagRIFF, B(30), TagWAVE, <<fmtChunk, dataChunk>>, <<>>),
      Stream(<<>>, TagRIFF, B(0), TagWAVE, <<>>, <<>>),
      Stream(<<>>, TagRIFF, B(14), TagWAVE,
             <<Chunk(TagFmt, 6, <<1, 2>>)>>, <<3, 4, 5, 6>>),
      [bytes |-> <<82, 73, 70, 70, 4, 0, 0, 0, 87>>, origin |-> 0,
       size |-> B(4), chunks |-> <<>>, exact |-> FALSE],
      [bytes |-> <<88, 73, 70, 70, 4>>, origin |-> 0,
       size |-> B(4), chunks |-> <<>>, exact |-> FALSE],
      [bytes |-> Prefix, origin |-> 3,
       size |-> B(0), chunks |-> <<>>, exact |-> FALSE] }

Streams == WellFormedStreams \cup MalformedStreams

FilterTags == {NoTag, TagFmt, TagData, TagCue, TagLIST}

----------------------------------------------------------------------------
(* Inputs of the labeled-text extraction: LIST bodies built entry by entry *)

\* a sub-chunk as laid out in a LIST body; rec is the record a well-formed
\* ltxt entry encodes (keep = TRUE), body the bytes after the sub-chunk head
Entry(keep, rec, tag, size, body) ==
    [keep |-> keep, rec |-> rec, tag |-> tag, size |-> size, body |-> body]

Good(rec) ==
    Entry(TRUE, rec, TagLtxt, Len(LabeledText_as_bytes(rec)),
          LabeledText_as_bytes(rec)
          \o (IF Len(LabeledText_as_bytes(rec)) % 2 = 1 THEN <<0>> ELSE <<>>))

\* dropped entries: another tag (one of them one letter away from "ltxt"
\* over the bytes of a record), a declared size below 20
Dropped(tag, payload) ==
    Entry(FALSE, ltxtPlain, tag, Len(payload),
          payload \o (IF Len(payload) % 2 = 1 THEN <<0>> ELSE <<>>))

EntryKinds ==
    { Good(ltxtHello), Good(ltxtPlain), Good(ltxtFull),
      Dropped(<<108, 116, 120, 84>>, LabeledText_as_bytes(ltxtPlain)),
      Dropped(<<108, 97, 98, 108>>, <<1, 0, 0>>),
      Dropped(TagLtxt, <<1, 0, 0, 0, 104>>),
      Dropped(TagLtxt, <<>>) }

MaxEntries == 2

\* what follows the last entry: nothing, fewer than 8 stray bytes, an ltxt
\* head that declares 30 bytes where 22 are left, or one that declares the
\* largest u32 where 1 is left
Tails ==
    { <<>>, <<1, 2, 3>>,
      TagLtxt \o u32_to_le_bytes(B(30)) \o Zeros(22),
      TagLtxt \o <<255, 255, 255, 255>> \o <<9>> }

EntryLists ==
    UNION {[1..n -> EntryKinds] : n \in 0..MaxEntries}

RECURSIVE EntryBytes(_)
EntryBytes(es) ==
    IF es = <<>> THEN <<>>
    ELSE Head(es).tag \o u32_to_le_bytes(B(Head(es).size)) \o Head(es).body
         \o EntryBytes(Tail(es))

\* the body of a LIST/adtl chunk; with nopad the pad byte of an odd-sized
\* last entry is left out
ListBody(es, tail, nopad) ==
    LET all == TagAdtl \o EntryBytes(es)
        cut == nopad /\ es /= <<>> /\ es[Len(es)].size % 2 = 1
    IN  (IF cut THEN SubSeq(all, 1, Len(all) - 1) ELSE all)
        \o (IF cut THEN <<>> ELSE tail)

NoEntries == [list |-> <<>>, tail |-> <<>>, nopad |-> FALSE]
NoDecoded == [op |-> "none", ltxts |-> <<>>]

----------------------------------------------------------------------------
(* State                                                                   *)

VARIABLES
    data,            \* the bytes of the stream
    pos,             \* the stream position
    owner,           \* who holds the stream: "caller", "reader", "writer"
    head,            \* WaveCursor.head
    wave_start,      \* WaveCursor.wave_start
    wave_end,        \* WaveCursor.wave_end
    first_chunk_pos, \* WaveCursor.first_chunk_pos
    writer_start,    \* the position the chunk writer was taken at
    ret,             \* the last call and what it returned
    input,           \* the stream as it was built (never changes)
    appended,        \* history: the successful appends, in call order
    entries,         \* how the buffer handed to a codec function was built
    bytes_in,        \* the buffer handed to a codec function
    decoded,         \* the codec function called last and what it returned
    split,           \* what the container splitter found
    vc               \* the bounded virtual cursor handed out by the splitter

vars == <<data, pos, owner, head, wave_start, wave_end, first_chunk_pos,
          writer_start, ret, input, appended, entries, bytes_in, decoded,
          split, vc>>

codecVars == <<entries, bytes_in, decoded>>

splitVars == <<split, vc>>

NoSplit == [wave_start |-> <<>>, appendix_start |-> <<>>, size |-> <<>>]
NoCursor == [offset |-> <<>>, size |-> <<>>, end |-> <<>>, position |-> <<>>]

readerVars == <<head, wave_start, wave_end, first_chunk_pos>>

\* the record kept of a call: from is the position it started at; tag,
\* payload and at describe a returned chunk; filter is the tag asked for;
\* trail lists the chunks a read consumed; count is the number of bytes a
\* read of the virtual cursor asked for;
\* streak counts the successful appends a writer made back to back
Ret(op, kind, msg, from) ==
    [op |-> op, kind |-> kind, msg |-> msg, from |-> from,
     filter |-> NoTag, tag |-> <<>>, payload |-> <<>>, at |-> None,
     trail |-> <<>>, streak |-> 0, count |-> 0, cue_count |-> 0]

Init ==
    /\ input \in Streams
    /\ data = input.bytes
    /\ pos = B(input.origin)
    /\ owner = "caller"
    /\ head = NoHead
    /\ wave_start = None
    /\ wave_end = None
    /\ first_chunk_pos = None
    /\ writer_start = None
    /\ ret = Ret("init", "Ok", "", B(input.origin))
    /\ appended = <<>>
    /\ entries = NoEntries
    /\ bytes_in = <<>>
    /\ decoded = NoDecoded
    /\ split = NoSplit
    /\ vc = NoCursor

----------------------------------------------------------------------------
(* The chunk reader                                                        *)

\* WaveCursor::new(cursor)
New ==
    /\ owner = "caller"
    /\ LET r == WaveCursor_new(data, pos)
       IN  /\ pos' = r.pos
           /\ owner' = IF r.res = "Ok" THEN "reader" ELSE "caller"
           /\ head' = r.head
           /\ wave_start' = r.wave_start
           /\ wave_end' = r.wave_end
           /\ first_chunk_pos' = r.first_chunk_pos
           /\ ret' = Ret("new", r.res, r.msg, pos)
    /\ UNCHANGED <<data, writer_start, input, appended, codecVars,
                   splitVars>>

\* WaveCursor::read_next_chunk(tag)
ReadNextChunk(tag) ==
    /\ owner = "reader"
    /\ LET r == read_next_chunk(data, pos, wave_end, tag)
       IN  /\ pos' = r.pos
           /\ ret' = [Ret("read_next_chunk", r.kind, "", pos)
                        EXCEPT !.filter = tag, !.tag = r.tag,
                               !.payload = r.payload, !.at = r.at,
                               !.trail = r.trail]
    /\ UNCHANGED <<data, owner, readerVars, writer_start, input, appended, codecVars,
                   splitVars>>

\* parse_cue_points(&payload[..]) on the payload read_next_chunk returned
\* for a "cue " chunk; a panic ends the program
ParseCuePayload ==
    /\ owner = "reader"
    /\ ret.op = "read_next_chunk"
    /\ ret.kind = "Some"
    /\ ret.tag = TagCue
    /\ LET r == parse_cue_points(ret.payload)
       IN  /\ ret' = [ret EXCEPT !.op = "parse_cue_points",
                                 !.kind = IF r.panic THEN "Panic" ELSE "Ok",
                                 !.cue_count = Len(r.cues)]
           /\ owner' = IF r.panic THEN "aborted" ELSE owner
    /\ UNCHANGED <<data, pos, readerVars, writer_start, input, appended,
                   codecVars, splitVars>>

\* a reset that seeks to the start of the container, not to its first chunk
Reset_ToWaveStart ==
    /\ owner = "reader"
    /\ pos' = wave_start
    /\ ret' = Ret("reset", "Ok", "", pos)
    /\ UNCHANGED <<data, owner, readerVars, writer_start, input, appended, codecVars,
                   splitVars>>

\* WaveCursor::reset
Reset ==
    /\ owner = "reader"
    /\ pos' = first_chunk_pos
    /\ ret' = Ret("reset", "Ok", "", pos)
    /\ UNCHANGED <<data, owner, readerVars, writer_start, input, appended, codecVars,
                   splitVars>>

\* restore_cursor seeking to the start of the stream instead of wave_start
RestoreCursor_ToZero ==
    /\ owner = "reader"
    /\ pos' = B(0)
    /\ owner' = "caller"
    /\ head' = NoHead
    /\ wave_start' = None
    /\ wave_end' = None
    /\ first_chunk_pos' = None
    /\ ret' = Ret("restore_cursor", "Ok", "", pos)
    /\ UNCHANGED <<data, writer_start, input, appended, codecVars,
                   splitVars>>

\* WaveCursor::restore_cursor
RestoreCursor ==
    /\ owner = "reader"
    /\ pos' = wave_start
    /\ owner' = "caller"
    /\ head' = NoHead
    /\ wave_start' = None
    /\ wave_end' = None
    /\ first_chunk_pos' = None
    /\ ret' = Ret("restore_cursor", "Ok", "", pos)
    /\ UNCHANGED <<data, writer_start, input, appended, codecVars,
                   splitVars>>

----------------------------------------------------------------------------
(* The append engine                                                       *)

SizeField(d, start) == u32_from_le_bytes(SubSeq(d, start + 5, start + 8))

\* what the history keeps of a successful append that started at from
Appended(kind, cues, ltxts, from, r) ==
    [kind |-> kind, cues |-> cues, ltxts |-> ltxts, start |-> ToInt(from),
     old_len |-> Len(data), new_len |-> Len(r.data),
     old_size |-> SizeField(data, ToInt(from)),
     new_size |-> SizeField(r.data, ToInt(from)),
     end_pos |-> r.pos]

\* the effect of an append call with result r on the stream and the history
Appends(op, kind, cues, ltxts, from, r) ==
    /\ data' = r.data
    /\ pos' = r.pos
    /\ ret' = [Ret(op, r.res, r.msg, from)
                 EXCEPT !.streak = IF r.res = "Ok" /\ owner = "writer"
                                   THEN ret.streak + 1 ELSE 0]
    /\ appended' = IF r.res = "Ok"
                   THEN Append(appended,
                               Appended(kind, cues, ltxts, from, r))
                   ELSE appended

\* append_cue_chunk(&mut cursor, cues), called on the stream as it stands
AppendCueChunk(cues) ==
    /\ owner = "caller"
    /\ Len(appended) < MaxAppends
    /\ Appends("append_cue_chunk", "cue ", cues, <<>>, pos,
               append_cue_chunk(data, pos, cues))
    /\ UNCHANGED <<owner, readerVars, writer_start, input, codecVars,
                   splitVars>>

\* append_label_chunk(&mut cursor, labeled_texts)
AppendLabelChunk(labeled_texts) ==
    /\ owner = "caller"
    /\ Len(appended) < MaxAppends
    /\ Appends("append_label_chunk", "LIST", Slice(<<>>), labeled_texts, pos,
               append_label_chunk(data, pos, labeled_texts))
    /\ UNCHANGED <<owner, readerVars, writer_start, input, codecVars,
                   splitVars>>

\* the caller seeks its stream back to where the container starts
SeekStart ==
    /\ owner = "caller"
    /\ pos /= B(input.origin)
    /\ pos' = B(input.origin)
    /\ ret' = Ret("seek", "Ok", "", pos)
    /\ UNCHANGED <<data, owner, readerVars, writer_start, input, appended, codecVars,
                   splitVars>>

----------------------------------------------------------------------------
(* The chunk writer the tests use (ChunkWriter).  Its source is not part   *)
(* of the files modelled here; it is modelled from the design: it          *)
(* validates the head like the reader, every append re-reads the head from *)
(* the position the writer was taken at, restore_cursor seeks back there.  *)

ChunkWriter_new ==
    /\ owner = "caller"
    /\ LET rh == read_riff_head(data, pos)
       IN  /\ pos' = rh.pos
           /\ owner' = IF rh.res = "Ok" THEN "writer" ELSE "caller"
           /\ writer_start' = IF rh.res = "Ok" THEN pos ELSE None
           /\ ret' = Ret("writer_new", rh.res, rh.msg, pos)
    /\ UNCHANGED <<data, readerVars, input, appended, codecVars,
                   splitVars>>

ChunkWriter_append_cue_chunk(cues) ==
    /\ owner = "writer"
    /\ Len(appended) < MaxAppends
    /\ Appends("append_cue_chunk", "cue ", cues, <<>>, writer_start,
               append_cue_chunk(data, writer_start, cues))
    /\ UNCHANGED <<owner, readerVars, writer_start, input, codecVars,
                   splitVars>>

ChunkWriter_append_label_chunk(labeled_texts) ==
    /\ owner = "writer"
    /\ Len(appended) < MaxAppends
    /\ Appends("append_label_chunk", "LIST", Slice(<<>>), labeled_texts,
               writer_start,
               append_label_chunk(data, writer_start, labeled_texts))
    /\ UNCHANGED <<owner, readerVars, writer_start, input, codecVars,
                   splitVars>>

\* a writer that hands the stream back where the last append left it
ChunkWriter_restore_cursor_NoSeek ==
    /\ owner = "writer"
    /\ pos' = pos
    /\ owner' = "caller"
    /\ writer_start' = None
    /\ ret' = Ret("writer_restore_cursor", "Ok", "", pos)
    /\ UNCHANGED <<data, readerVars, input, appended, codecVars,
                   splitVars>>

ChunkWriter_restore_cursor ==
    /\ owner = "writer"
    /\ pos' = writer_start
    /\ owner' = "caller"
    /\ writer_start' = None
    /\ ret' = Ret("writer_restore_cursor", "Ok", "", pos)
    /\ UNCHANGED <<data, readerVars, input, appended, codecVars,
                   splitVars>>

----------------------------------------------------------------------------

Next ==
    \/ New
    \/ \E tag \in FilterTags : ReadNextChunk(tag)
    \/ ParseCuePayload
    \/ Reset
    \/ RestoreCursor
    \/ \E cues \in CueInputs : AppendCueChunk(cues)
    \/ \E ltxts \in LabelInputs : AppendLabelChunk(ltxts)
    \/ SeekStart
    \/ ChunkWriter_new
    \/ \E cues \in CueInputs : ChunkWriter_append_cue_chunk(cues)
    \/ \E ltxts \in LabelInputs : ChunkWriter_append_label_chunk(ltxts)
    \/ ChunkWriter_restore_cursor

Spec == Init /\ [][Next]_vars

----------------------------------------------------------------------------
(* The codec functions called on a buffer of their own                     *)

IdleStream == [bytes |-> <<>>, origin |-> 0, size |-> B(0), chunks |-> <<>>,
               exact |-> FALSE]

\* buffers shorter than the 4 bytes both decoders skip
ShortBuffers == {<<>>, <<1>>, <<1, 0, 0>>}

InitCodec ==
    /\ input = IdleStream
    /\ data = <<>>
    /\ pos = B(0)
    /\ owner = "codec"
    /\ head = NoHead
    /\ wave_start = None
    /\ wave_end = None
    /\ first_chunk_pos = None
    /\ writer_start = None
    /\ ret = Ret("init", "Ok", "", B(0))
    /\ appended = <<>>
    /\ \/ \E es \in EntryLists, tail \in Tails, nopad \in BOOLEAN :
             /\ entries = [list |-> es, tail |-> tail, nopad |-> nopad]
             /\ bytes_in = ListBody(es, tail, nopad)
       \/ \E short \in ShortBuffers :
             /\ entries = [list |-> <<>>, tail |-> short, nopad |-> FALSE]
             /\ bytes_in = short
    /\ decoded = NoDecoded
    /\ split = NoSplit
    /\ vc = NoCursor

\* extract_labeled_text_from_list(&bytes)
ExtractLabeledTextFromList ==
    /\ owner = "codec"
    /\ decoded.op = "none"
    /\ LET r == extract_labeled_text_from_list(bytes_in)
       IN  decoded' = [op |-> "extract_labeled_text_from_list",
                       ltxts |-> r.ltxts, panic |-> r.panic,
                       steps |-> r.steps]
    /\ UNCHANGED <<data, pos, owner, readerVars, writer_start, ret, input,
                   appended, entries, bytes_in, splitVars>>

NextCodec == ExtractLabeledTextFromList

SpecCodec == InitCodec /\ [][NextCodec]_vars

----------------------------------------------------------------------------
(* parse_cue_points called on a buffer of its own                          *)

MaxCues == 2

CueLists == UNION {[1..n -> {cue1, cue2, cue3}] : n \in 0..MaxCues}

\* the count prefix: the number of records, none, or the largest u32
CountPrefixes(items) ==
    {u32_to_le_bytes(B(Len(items))), <<0, 0, 0, 0>>, <<255, 255, 255, 255>>}

\* what follows the last record: nothing, one byte, a record less one byte
PartialRecords == {<<>>, <<1>>, SubSeq(CuePoint_as_bytes(cue3), 1, 23)}

InitParse ==
    /\ input = IdleStream
    /\ data = <<>>
    /\ pos = B(0)
    /\ owner = "codec"
    /\ head = NoHead
    /\ wave_start = None
    /\ wave_end = None
    /\ first_chunk_pos = None
    /\ writer_start = None
    /\ ret = Ret("init", "Ok", "", B(0))
    /\ appended = <<>>
    /\ \/ \E items \in CueLists, tail \in PartialRecords :
             \E count \in CountPrefixes(items) :
                /\ entries = [list |-> items, tail |-> tail, nopad |-> FALSE]
                /\ bytes_in = count
                     \o Flatten([i \in 1..Len(items) |->
                                   CuePoint_as_bytes(items[i])])
                     \o tail
       \/ \E short \in ShortBuffers :
             /\ entries = [list |-> <<>>, tail |-> short, nopad |-> FALSE]
             /\ bytes_in = short
    /\ decoded = NoDecoded
    /\ split = NoSplit
    /\ vc = NoCursor

\* parse_cue_points(&bytes)
ParseCuePoints ==
    /\ owner = "codec"
    /\ decoded.op = "none"
    /\ LET r == parse_cue_points(bytes_in)
       IN  decoded' = [op |-> "parse_cue_points", ltxts |-> <<>>,
                       panic |-> r.panic, cues |-> r.cues]
    /\ UNCHANGED <<data, pos, owner, readerVars, writer_start, ret, input,
                   appended, entries, bytes_in, splitVars>>

NextParse == ParseCuePoints

SpecParse == InitParse /\ [][NextParse]_vars

----------------------------------------------------------------------------
(* The bounded virtual cursor and the container splitter.  Their source is *)
(* not part of the files modelled here; they are modelled from the design  *)
(* (sections 4.6 and 4.7): a cursor is {size of the synthetic header,      *)
(* offset of the window in the underlying stream, end of the logical       *)
(* stream, logical position}.                                              *)

\* the 8 bytes of the synthetic header
BoundedCursor_header(size) == TagRIFF \o u32_to_le_bytes(size)

\* a read that takes the window to start where the header ends
BoundedCursor_read_Shifted(d, u, c, n) ==
    LET q    == c.position
        stop == BAdd(q, n)
        from == IF BLess(q, B(8)) THEN B(8) ELSE q
        upto == IF BLess(stop, B(8)) THEN stop ELSE B(8)
        head_part ==
            IF BLess(q, B(8))
            THEN SubSeq(BoundedCursor_header(c.size), ToInt(q) + 1, ToInt(upto))
            ELSE <<>>
        Body(rd) ==
            IF ~rd.ok
            THEN [kind |-> "Io", bytes |-> <<>>, position |-> q,
                  upos |-> rd.pos]
            ELSE [kind |-> "Ok", bytes |-> head_part \o rd.bytes,
                  position |-> stop, upos |-> rd.pos]
    IN  IF BLess(c.end, stop)
        THEN [kind |-> "OutOfBounds", bytes |-> <<>>, position |-> q,
              upos |-> u]
        ELSE IF ~BLess(B(8), stop)
        THEN [kind |-> "Ok", bytes |-> head_part, position |-> stop,
              upos |-> u]
        ELSE Body(ReadExact(d, BSub(BAdd(c.offset, from), B(8)),
                            BSub(stop, from)))

\* read of n bytes at the logical position of cursor c over the stream d
\* whose position is u: header bytes below logical 8, the underlying bytes
\* at offset + logical position from there on, nothing past end
BoundedCursor_read(d, u, c, n) ==
    LET q    == c.position
        stop == BAdd(q, n)
        from == IF BLess(q, B(8)) THEN B(8) ELSE q
        upto == IF BLess(stop, B(8)) THEN stop ELSE B(8)
        head_part ==
            IF BLess(q, B(8))
            THEN SubSeq(BoundedCursor_header(c.size), ToInt(q) + 1, ToInt(upto))
            ELSE <<>>
        Body(rd) ==
            IF ~rd.ok
            THEN [kind |-> "Io", bytes |-> <<>>, position |-> q,
                  upos |-> rd.pos]
            ELSE [kind |-> "Ok", bytes |-> head_part \o rd.bytes,
                  position |-> stop, upos |-> rd.pos]
    IN  IF BLess(c.end, stop)
        THEN [kind |-> "OutOfBounds", bytes |-> <<>>, position |-> q,
              upos |-> u]
        ELSE IF ~BLess(B(8), stop)
        THEN [kind |-> "Ok", bytes |-> head_part, position |-> stop,
              upos |-> u]
        ELSE Body(ReadExact(d, BAdd(c.offset, from), BSub(stop, from)))

\* seek in the logical position space: whence is "Start", "Current" or
\* "End", k the signed distance
BoundedCursor_seek(c, whence, k) ==
    LET base == IF whence = "Start" THEN B(0)
                ELSE IF whence = "Current" THEN c.position ELSE c.end
        Moved(to) ==
            IF ~FitsU64(to) THEN [kind |-> "InvalidSeek", position |-> c.position]
            ELSE [kind |-> "Ok", position |-> to]
    IN  IF k < 0
        THEN IF BLess(base, B(0 - k))
             THEN [kind |-> "InvalidSeek", position |-> c.position]
             ELSE Moved(BSub(base, B(0 - k)))
        ELSE Moved(BAdd(base, B(k)))

\* a splitter that leaves the 8 bytes of the head in the corrected size
ContainerSplitter_new_WithHead(d, p) ==
    LET Failed(res, msg, at) ==
            [res |-> res, msg |-> msg, pos |-> at, wave_start |-> None,
             appendix_start |-> None, size |-> None]
        Sized(appendix_start, size, at) ==
            IF ~FitsU32(size)
            THEN Failed("Wave", "WAVE size too large", at)
            ELSE [res |-> "Ok", msg |-> "", pos |-> at, wave_start |-> p,
                  appendix_start |-> appendix_start, size |-> size]
        Appendix(appendix_start, at) ==
            Sized(appendix_start, BSub(appendix_start, p), at)
        Data(dh) ==
            IF ~dh.ok THEN Failed("Io", "eof", dh.pos)
            ELSE IF dh.head.tag /= TagData
            THEN Failed("Wave", "Unexpected tag", dh.pos)
            ELSE Appendix(BAdd(dh.pos, dh.head.size), dh.pos)
        Fmt(fh) ==
            IF ~fh.ok THEN Failed("Io", "eof", fh.pos)
            ELSE IF fh.head.tag /= TagFmt
            THEN Failed("Wave", "Unexpected tag", fh.pos)
            ELSE Data(ChunkHead_parse(d, BAdd(fh.pos, fh.head.size)))
        Read(rh) ==
            IF rh.res /= "Ok" THEN Failed(rh.res, rh.msg, rh.pos)
            ELSE Fmt(ChunkHead_parse(d, rh.pos))
    IN  Read(read_riff_head(d, p))

\* the splitter: validate RIFF/size/WAVE, require "fmt ", skip its body by
\* the declared size, require "data", take the end of its payload as the
\* start of the appendix, and correct the declared size
ContainerSplitter_new(d, p) ==
    LET Failed(res, msg, at) ==
            [res |-> res, msg |-> msg, pos |-> at, wave_start |-> None,
             appendix_start |-> None, size |-> None]
        Sized(appendix_start, size, at) ==
            IF ~FitsU32(size)
            THEN Failed("Wave", "WAVE size too large", at)
            ELSE [res |-> "Ok", msg |-> "", pos |-> at, wave_start |-> p,
                  appendix_start |-> appendix_start, size |-> size]
        Appendix(appendix_start, at) ==
            Sized(appendix_start, BSub(BSub(appendix_start, p), B(8)), at)
        Data(dh) ==
            IF ~dh.ok THEN Failed("Io", "eof", dh.pos)
            ELSE IF dh.head.tag /= TagData
            THEN Failed("Wave", "Unexpected tag", dh.pos)
            ELSE Appendix(BAdd(dh.pos, dh.head.size), dh.pos)
        Fmt(fh) ==
            IF ~fh.ok THEN Failed("Io", "eof", fh.pos)
            ELSE IF fh.head.tag /= TagFmt
            THEN Failed("Wave", "Unexpected tag", fh.pos)
            ELSE Data(ChunkHead_parse(d, BAdd(fh.pos, fh.head.size)))
        Read(rh) ==
            IF rh.res /= "Ok" THEN Failed(rh.res, rh.msg, rh.pos)
            ELSE Fmt(ChunkHead_parse(d, rh.pos))
    IN  Read(read_riff_head(d, p))

\* the cursor over the WAVE region: corrected size, rooted at wave_start
ContainerSplitter_wave_cursor(sp) ==
    [offset |-> sp.wave_start, size |-> sp.size,
     end |-> BAdd(B(8), sp.size), position |-> B(0)]

\* containers with and without an appendix
fmtEven == Padded(TagFmt, <<1, 2, 3, 4>>)
AppendixBytes == <<65, 80, 80, 88, 33, 63>>

SplitStreams ==
    { Wave(Prefix, <<fmtEven, dataChunk>>, AppendixBytes),
      Stream(<<>>, TagRIFF,
             B(RiffSizeOf(<<fmtEven, dataChunk>>) + Len(AppendixBytes)),
             TagWAVE, <<fmtEven, dataChunk>>, AppendixBytes),
      Wave(<<>>, <<fmtEven, oddData>>, AppendixBytes),
      Wave(<<>>, <<fmtEven, dataChunk>>, <<>>),
      Wave(<<>>, <<fmtEven, cueShort, dataChunk>>, AppendixBytes),
      Wave(<<>>, <<cueShort, fmtEven, dataChunk>>, <<>>),
      Wave(<<>>, <<fmtChunk, dataChunk>>, AppendixBytes),
      Stream(<<>>, TagRIFF, B(30), TagWAVE,
             <<fmtEven, Chunk(TagData, 20, <<9, 8>>)>>, <<>>),
      Stream(<<>>, <<82, 73, 70, 88>>, B(26), TagWAVE,
             <<fmtEven, dataChunk>>, <<>>),
      [bytes |-> TagRIFF \o u32_to_le_bytes(B(24)) \o TagWAVE
                 \o ChunkBytes(<<fmtEven>>)
                 \o TagData \o <<252, 255, 255, 255>> \o <<9, 8>>,
       origin |-> 0, size |-> B(24), chunks |-> <<fmtEven>>,
       exact |-> FALSE] }

\* the lengths read and the seeks made on the virtual cursor
ReadCounts == {0, 1, 4, 5, 12}
Seeks == {<<"Start", 0>>, <<"Start", 6>>, <<"Current", 0 - 4>>,
          <<"End", 0 - 2>>, <<"End", 1>>}

InitSplit ==
    /\ input \in SplitStreams
    /\ data = input.bytes
    /\ pos = B(input.origin)
    /\ owner = "caller"
    /\ head = NoHead
    /\ wave_start = None
    /\ wave_end = None
    /\ first_chunk_pos = None
    /\ writer_start = None
    /\ ret = Ret("init", "Ok", "", B(input.origin))
    /\ appended = <<>>
    /\ entries = NoEntries
    /\ bytes_in = <<>>
    /\ decoded = NoDecoded
    /\ split = NoSplit
    /\ vc = NoCursor

\* the splitter takes the stream
Split ==
    /\ owner = "caller"
    /\ LET r == ContainerSplitter_new(data, pos)
       IN  /\ pos' = r.pos
           /\ owner' = IF r.res = "Ok" THEN "splitter" ELSE "caller"
           /\ split' = [wave_start |-> r.wave_start,
                        appendix_start |-> r.appendix_start,
                        size |-> r.size]
           /\ ret' = Ret("split", r.res, r.msg, pos)
    /\ UNCHANGED <<data, readerVars, writer_start, input, appended,
                   codecVars, vc>>

\* wave_cursor: the virtual cursor over the WAVE region is handed out
WaveCursorView ==
    /\ owner = "splitter"
    /\ owner' = "wave"
    /\ vc' = ContainerSplitter_wave_cursor(split)
    /\ ret' = Ret("wave_cursor", "Ok", "", pos)
    /\ UNCHANGED <<data, pos, readerVars, writer_start, input, appended,
                   codecVars, split>>

\* appendix_cursor: the stream is handed out at the start of the appendix
AppendixCursor ==
    /\ owner = "splitter"
    /\ owner' = "appendix"
    /\ pos' = split.appendix_start
    /\ ret' = Ret("appendix_cursor", "Ok", "", pos)
    /\ UNCHANGED <<data, readerVars, writer_start, input, appended,
                   codecVars, splitVars>>

\* a read of n bytes on the virtual cursor
VirtualRead(n) ==
    /\ owner = "wave"
    /\ LET r == BoundedCursor_read(data, pos, vc, B(n))
       IN  /\ vc' = [vc EXCEPT !.position = r.position]
           /\ pos' = r.upos
           /\ ret' = [Ret("virtual_read", r.kind, "", vc.position)
                        EXCEPT !.payload = r.bytes, !.count = n]
    /\ UNCHANGED <<data, owner, readerVars, writer_start, input, appended,
                   codecVars, split>>

\* a seek on the virtual cursor
VirtualSeek(whence, k) ==
    /\ owner = "wave"
    /\ LET r == BoundedCursor_seek(vc, whence, k)
       IN  /\ vc' = [vc EXCEPT !.position = r.position]
           /\ ret' = Ret("virtual_seek", r.kind, "", vc.position)
    /\ UNCHANGED <<data, pos, owner, readerVars, writer_start, input,
                   appended, codecVars, split>>

NextSplit ==
    \/ Split
    \/ WaveCursorView
    \/ AppendixCursor
    \/ \E n \in ReadCounts : VirtualRead(n)
    \/ \E sk \in Seeks : VirtualSeek(sk[1], sk[2])

SpecSplit == InitSplit /\ [][NextSplit]_vars

----------------------------------------------------------------------------
(* Notions the properties are stated in                                    *)

Origin == B(input.origin)

AppendOps == {"append_cue_chunk", "append_label_chunk"}

Max(a, b) == IF a >= b THEN a ELSE b

\* the size a chunk must declare for its input, computed on the integers
ExpectedChunkSize(e) ==
    IF e.kind = "cue " THEN 4 + 24 * Len(e.cues.items)
    ELSE LET padded(l) == Len(l.text) + (Len(l.text) % 2)
             sub[i \in 0..Len(e.ltxts)] ==
                 IF i = 0 THEN 0 ELSE sub[i - 1] + 8 + 20 + padded(e.ltxts[i])
         IN  4 + sub[Len(e.ltxts)]

\* the declared RIFF size after the first k appends of the history
RECURSIVE ExpectedRiffSize(_)
ExpectedRiffSize(k) ==
    IF k = 0 THEN ToInt(input.size)
    ELSE ExpectedRiffSize(k - 1) + 8 + ExpectedChunkSize(appended[k])

\* where the k-th appended chunk must start
ExpectedChunkAt(k) == input.origin + 8 + ExpectedRiffSize(k - 1)

\* where an append of the history wrote its chunk head
ChunkAt(e) == e.start + 8 + ToInt(e.old_size)

KindTag(e) == IF e.kind = "cue " THEN TagCue ELSE TagLIST

----------------------------------------------------------------------------
(* C1: when restore_cursor of a reader has returned, whatever reads and    *)
(* resets came before, the stream is with the caller at the position it    *)
(* had when the reader was constructed (where the container starts).       *)
C1_RestoreReturnsToStart ==
    ret.op = "restore_cursor" => (owner = "caller" /\ pos = Origin)

\* a reader on a container that does not start at offset 0 was restored
\* after a scan that had moved past the first chunk
C1_Witness ==
    /\ ret.op = "restore_cursor"
    /\ input.origin > 0
    /\ BLess(B(input.origin + 12), ret.from)

(* C2: every successful append of n cue points to a container whose stream *)
(* ended at the declared container end raised the RIFF size field by       *)
(* 8 + 4 + 24n and lengthened the stream by the same number of bytes.      *)
C2_CueAppendGrowsBySize ==
    \A i \in DOMAIN appended :
        LET e == appended[i]
            n == Len(e.cues.items)
        IN  (e.kind = "cue " /\ e.old_len = e.start + 8 + ToInt(e.old_size))
            => /\ e.new_size = B(ToInt(e.old_size) + 8 + 4 + 24 * n)
               /\ e.new_len = e.old_len + 8 + 4 + 24 * n

\* two cue points were appended to a stream that ended at the container end:
\* 60 bytes more
C2_Witness ==
    \E i \in DOMAIN appended :
        /\ appended[i].kind = "cue "
        /\ Len(appended[i].cues.items) = 2
        /\ appended[i].old_len
             = appended[i].start + 8 + ToInt(appended[i].old_size)
        /\ appended[i].new_len = appended[i].old_len + 60

(* C3: a step in which an append returns a format error (not a WAVE file,  *)
(* odd RIFF size, chunk size or new RIFF size beyond 32 bits) leaves every *)
(* byte of the stream, the size field included, as it was.                 *)
C3_FailedAppendWritesNothing ==
    [][(ret'.op \in AppendOps /\ ret'.kind = "Wave")
         => (data' = data /\ appended' = appended)]_vars

\* an append was refused because a size does not fit in 32 bits
C3_Witness ==
    /\ ret.op \in AppendOps
    /\ ret.kind = "Wave"
    /\ ret.msg = CHUNK_TOO_BIG

\* the facts of C4 that do not concern the end of the stream
AppendsCompose ==
    \A k \in DOMAIN appended :
        LET e  == appended[k]
            at == ExpectedChunkAt(k)
        IN  /\ e.start = input.origin
            /\ e.old_size = B(ExpectedRiffSize(k - 1))
            /\ e.new_size = B(ExpectedRiffSize(k))
            /\ ChunkAt(e) = at
            /\ SubSeq(data, at + 1, at + 8)
                 = KindTag(e) \o u32_to_le_bytes(B(ExpectedChunkSize(e)))

SizeFieldIsSum ==
    appended /= <<>>
        => SizeField(data, input.origin) = B(ExpectedRiffSize(Len(appended)))

----------------------------------------------------------------------------
(* The chunks of the stream as it was built and as the appends extended it *)

\* offset of the head of the i-th chunk the stream was built with
RECURSIVE BuiltAt(_)
BuiltAt(i) ==
    IF i = 1 THEN input.origin + 12
    ELSE BuiltAt(i - 1) + 8 + Len(input.chunks[i - 1].body)

BuiltChunks ==
    [i \in 1..Len(input.chunks) |->
        [tag |-> input.chunks[i].tag, size |-> input.chunks[i].size,
         at |-> BuiltAt(i)]]

AppendedChunks ==
    [i \in 1..Len(appended) |->
        [tag |-> KindTag(appended[i]),
         size |-> ExpectedChunkSize(appended[i]),
         at |-> ChunkAt(appended[i])]]

AllChunks == BuiltChunks \o AppendedChunks

AllTags == {AllChunks[i].tag : i \in DOMAIN AllChunks}

\* the payload bytes of a chunk of size n whose head is at offset at
PayloadAt(at, n) == SubSeq(data, at + 9, at + 8 + n)

\* indexes of the chunks with tag t whose head is at or after position from
Hits(t, from) ==
    {i \in DOMAIN AllChunks :
        AllChunks[i].tag = t /\ BLeq(from, B(AllChunks[i].at))}

FirstHit(t, from) ==
    CHOOSE i \in Hits(t, from) : \A j \in Hits(t, from) : i <= j

FilteredRead == ret.op = "read_next_chunk" /\ ret.filter /= NoTag

(* C5: a filtered read_next_chunk whose tag is the tag of no chunk of the  *)
(* container returns not-found and leaves the reader at wave_end.  Stated  *)
(* for streams that hold every byte up to wave_end, where no read can run  *)
(* into the end of the stream.                                             *)
C5_NotFoundLeavesReaderAtWaveEnd ==
    (FilteredRead /\ ret.filter \notin AllTags
       /\ BLeq(wave_end, B(Len(data))))
        => (ret.kind = "None" /\ pos = wave_end)

(* C6: the cue points decoded from the payload an append wrote are the     *)
(* list that was appended, in order; and so are the cue points decoded     *)
(* from that chunk when a read filtered on "cue " returns it.              *)
C6_CuePointsRoundTrip ==
    \A i \in DOMAIN appended :
        LET e    == appended[i]
            want == [panic |-> FALSE, cues |-> e.cues.items]
        IN  e.kind = "cue " =>
              /\ parse_cue_points(PayloadAt(ChunkAt(e), ExpectedChunkSize(e)))
                   = want
              /\ (FilteredRead /\ ret.filter = TagCue /\ ret.kind = "Some"
                   /\ ret.at = B(ChunkAt(e)))
                    => parse_cue_points(ret.payload) = want

\* a reader returned an appended cue chunk that holds cue points
C6_Witness ==
    \E i \in DOMAIN appended :
        /\ appended[i].kind = "cue "
        /\ appended[i].cues.items = <<cue3>>
        /\ FilteredRead /\ ret.filter = TagCue /\ ret.kind = "Some"
        /\ ret.at = B(ChunkAt(appended[i]))

(* C7: on a container whose chunks fill its declared size, a read filtered *)
(* on t returns the first chunk at or after the starting position whose    *)
(* tag is t, with exactly its declared size of payload bytes, and leaves   *)
(* the reader after that chunk and its pad byte.                           *)
C7_FilteredReadReturnsFirstMatch ==
    (FilteredRead /\ input.exact /\ Hits(ret.filter, ret.from) /= {})
        => LET c == AllChunks[FirstHit(ret.filter, ret.from)]
           IN  /\ ret.kind = "Some"
               /\ ret.tag = ret.filter
               /\ ret.at = B(c.at)
               /\ Len(ret.payload) = c.size
               /\ ret.payload = PayloadAt(c.at, c.size)
               /\ pos = B(c.at + 8 + RealSize(c.size))

\* the second of two cue chunks was returned, an odd-sized chunk before it
\* was skipped
C7_Witness ==
    /\ FilteredRead /\ input.exact /\ ret.kind = "Some"
    /\ ret.filter = TagCue
    /\ \E i \in DOMAIN AllChunks :
          /\ BLeq(ret.from, B(AllChunks[i].at))
          /\ BLess(B(AllChunks[i].at), ret.at)
          /\ AllChunks[i].size % 2 = 1

----------------------------------------------------------------------------
(* The bytes a constructor found at the position it was called at          *)

HeadBytes ==
    IF BLess(ret.from, B(Len(data)))
    THEN SubSeq(data, ToInt(ret.from) + 1,
                IF ToInt(ret.from) + 12 <= Len(data)
                THEN ToInt(ret.from) + 12 ELSE Len(data))
    ELSE <<>>

LeadingTagIsRiff == Len(HeadBytes) >= 4 /\ SubSeq(HeadBytes, 1, 4) = TagRIFF
FormTagIsWave == Len(HeadBytes) >= 12 /\ SubSeq(HeadBytes, 9, 12) = TagWAVE
DeclaredSizeIsOdd == Len(HeadBytes) >= 8 /\ HeadBytes[5] % 2 = 1

BadHead == ~LeadingTagIsRiff \/ ~FormTagIsWave \/ DeclaredSizeIsOdd

\* what C9 says of a constructor call, by the head it found
NewByHead ==
    IF BadHead
    THEN ret.kind = "Wave" /\ owner = "caller"
    ELSE /\ ret.kind = "Ok"
         /\ owner = "reader"
         /\ wave_start = ret.from
         /\ wave_end = BAdd(BAdd(ret.from, B(8)),
                            u32_from_le_bytes(SubSeq(HeadBytes, 5, 8)))

WaveEndBound ==
    owner = "reader" => BLeq(BAdd(wave_start, B(8)), wave_end)

(* C9 as first stated: new fails with a format error whenever the leading  *)
(* tag is not RIFF, the form tag is not WAVE or the declared size is odd,  *)
(* and otherwise succeeds with wave_end = wave_start + 8 + declared size.  *)
C9_Original ==
    /\ ret.op = "new" => NewByHead
    /\ WaveEndBound

(* C9, amended: that holds when the stream supplies the 12 bytes of the    *)
(* head at its position; when it supplies fewer, new fails with an I/O     *)
(* error.  In every reader state wave_end >= wave_start + 8.               *)
C9_NewValidatesHead ==
    /\ ret.op = "new" =>
         IF Len(HeadBytes) < 12
         THEN ret.kind = "Io" /\ owner = "caller"
         ELSE NewByHead
    /\ WaveEndBound

\* new refused a complete head for its odd declared size
C9_Witness ==
    /\ ret.op = "new"
    /\ Len(HeadBytes) = 12
    /\ ret.kind = "Wave"
    /\ ret.msg = "Malformed file: Odd RIFF size"

(* C10: when restore_cursor of a chunk writer has returned, after any      *)
(* number of successful appends, the stream is with the caller at the      *)
(* position the writer was taken at, not at the end of the appended data.  *)
C10_WriterRestoreReturnsToStart ==
    ret.op = "writer_restore_cursor" => (owner = "caller" /\ pos = Origin)

\* a writer that had just appended, and stood at the end of the data, was
\* restored
C10_Witness ==
    /\ ret.op = "writer_restore_cursor"
    /\ appended /= <<>>
    /\ ret.from = B(Len(data))
    /\ input.origin > 0

----------------------------------------------------------------------------
\* the records of the well-formed ltxt entries of a list, in order
RECURSIVE KeptRecords(_)
KeptRecords(es) ==
    IF es = <<>> THEN <<>>
    ELSE (IF Head(es).keep THEN <<Head(es).rec>> ELSE <<>>)
         \o KeptRecords(Tail(es))

Extracted == decoded.op = "extract_labeled_text_from_list"

(* C8: extract_labeled_text_from_list over a LIST/adtl body returns the    *)
(* records of its well-formed ltxt entries, equal to the records encoded,  *)
(* in body order; entries with another tag, a size below 20 or a truncated *)
(* body are dropped and do not disturb the entries after them; the pad     *)
(* byte after an odd-sized entry is skipped.                               *)
C8_ExtractKeepsWellFormedEntries ==
    Extracted => decoded.ltxts = KeptRecords(entries.list)

\* an odd-sized record with non-ASCII text was recovered after a dropped
\* odd-sized entry, ahead of a truncated one
C8_Witness ==
    /\ Extracted
    /\ Len(entries.list) = 2
    /\ ~entries.list[1].keep /\ entries.list[1].size % 2 = 1
    /\ entries.list[2] = Good(ltxtFull)
    /\ Len(entries.tail) > 8
    /\ decoded.ltxts = <<ltxtFull>>

----------------------------------------------------------------------------
ReadCall == ret.op = "read_next_chunk"

\* the declared size and its parity as the bytes of the stream have them
DeclaredAt(at) == SizeField(data, ToInt(at))
PadOf(at) == IF data[ToInt(at) + 5] % 2 = 1 THEN 1 ELSE 0

(* C11: a read_next_chunk call on a constructed reader, whatever sizes the *)
(* chunks declare (a size that overshoots the container included), goes on *)
(* from no consumed chunk at, and leaves the stream at, an offset greater   *)
(* than wave_end.                                                          *)
C11_ReadsStayWithinWaveEnd ==
    (ReadCall /\ pos /= ret.from)
        => /\ BLeq(pos, wave_end)
           /\ \A i \in DOMAIN ret.trail : BLeq(ret.trail[i].next, wave_end)

(* C12: every chunk a read_next_chunk call consumed, returned or skipped,  *)
(* moved the position from its head by 8 + size + (size mod 2), size being *)
(* the size the stream declares there: the next head was read, or the call *)
(* returned, exactly there.                                                *)
C12_ConsumedChunkAdvancesByPaddedSize ==
    ReadCall =>
        /\ \A i \in DOMAIN ret.trail :
              LET t == ret.trail[i]
              IN  /\ t.size = DeclaredAt(t.at)
                  /\ t.next = BAdd(BAdd(BAdd(t.at, B(8)), DeclaredAt(t.at)),
                                   B(PadOf(t.at)))
                  /\ i < Len(ret.trail) => ret.trail[i + 1].at = t.next
                  /\ (i = Len(ret.trail) /\ ret.kind /= "Io") => pos = t.next
        /\ ret.kind = "Some" =>
              /\ ret.trail /= <<>>
              /\ ret.trail[Len(ret.trail)].at = ret.at
              /\ B(Len(ret.payload)) = ret.trail[Len(ret.trail)].size

\* one call skipped a chunk of odd size and consumed one of even size
C12_Witness ==
    /\ ReadCall
    /\ \E i, j \in DOMAIN ret.trail :
          /\ i < j
          /\ PadOf(ret.trail[i].at) = 1
          /\ PadOf(ret.trail[j].at) = 0
          /\ ret.trail[j].size /= B(0)

----------------------------------------------------------------------------
(* C13: a step in which an append succeeds changes no byte that was in the *)
(* stream up to the old container end except the 4 bytes of the RIFF size  *)
(* field (the bytes before the container, the "RIFF" tag and every byte    *)
(* from offset 8 of the container to its old end stay), and the head of    *)
(* the new chunk lies exactly at the old container end, size-field offset  *)
(* + 4 + S_old.                                                            *)
C13_AppendKeepsOldBytes ==
    [][(ret'.op \in AppendOps /\ ret'.kind = "Ok")
         => LET s   == ToInt(ret'.from)
                old == ToInt(SizeField(data, s))
                e   == appended'[Len(appended')]
            IN  /\ \A i \in 1..Len(data) :
                      (i <= s + 4 \/ (s + 8 < i /\ i <= s + 8 + old))
                          => data'[i] = data[i]
                /\ SubSeq(data', s + 4 + 4 + old + 1, s + 4 + 4 + old + 8)
                     = KindTag(e) \o u32_to_le_bytes(B(ExpectedChunkSize(e)))
       ]_vars

\* an append succeeded on a container that holds chunks, has bytes before
\* it and bytes after it
C13_Witness ==
    /\ ret.op \in AppendOps
    /\ ret.kind = "Ok"
    /\ input.origin > 0
    /\ input.chunks /= <<>>
    /\ Len(input.bytes) > input.origin + 8 + ToInt(input.size)

----------------------------------------------------------------------------
\* the bytes C14 says a record takes in the LIST payload
ExpectedLtxtEntry(l) ==
    TagLtxt \o u32_to_le_bytes(B(20 + Len(l.text)))
    \o u32_to_le_bytes(l.cue_id) \o u32_to_le_bytes(l.sample_length)
    \o l.purpose_id \o l.country \o l.language \o l.dialect
    \o <<l.code_page % 256, l.code_page \div 256>>
    \o l.text
    \o (IF (20 + Len(l.text)) % 2 = 1 THEN <<0>> ELSE <<>>)

ExpectedListPayload(ltxts) ==
    TagAdtl \o Flatten([i \in 1..Len(ltxts) |-> ExpectedLtxtEntry(ltxts[i])])

(* C14: the chunk a successful append_label_chunk wrote has the tag "LIST"; *)
(* its payload is "adtl" and then, per record in input order, the 8-byte   *)
(* sub-head ("ltxt", 20 + text length), the encoded record and a zero pad  *)
(* byte exactly when that size is odd; the size its head declares is the   *)
(* number of payload bytes written, pad bytes included.                    *)
C14_LabelChunkLayout ==
    \A k \in DOMAIN appended :
        LET e        == appended[k]
            at       == ChunkAt(e)
            declared == ToInt(SizeField(data, at))
        IN  e.kind = "LIST" =>
              /\ SubSeq(data, at + 1, at + 4) = TagLIST
              /\ declared = Len(ExpectedListPayload(e.ltxts))
              /\ at + 8 + declared <= Len(data)
              /\ PayloadAt(at, declared) = ExpectedListPayload(e.ltxts)
              /\ e.end_pos = B(at + 8 + declared)

\* a labeled-text chunk was appended whose first record has a text of odd
\* length and whose second has none
C14_Witness ==
    \E k \in DOMAIN appended :
        /\ appended[k].kind = "LIST"
        /\ Len(appended[k].ltxts) = 2
        /\ Len(appended[k].ltxts[1].text) % 2 = 1
        /\ appended[k].ltxts[2].text = <<>>

----------------------------------------------------------------------------
VirtualReadCall == ret.op = "virtual_read"

\* the byte C15 says a read returns for logical position q (0-based)
LogicalByte(q) ==
    IF q < 8 THEN (TagRIFF \o u32_to_le_bytes(vc.size))[q + 1]
    ELSE data[ToInt(vc.offset) + q + 1]

(* C15: a read of the bounded virtual cursor that stays within end returns *)
(* for every logical position it covers the byte of the synthetic header   *)
(* ("RIFF" and the little-endian size the cursor was given) below 8 and    *)
(* the byte of the underlying stream at offset + position from 8 on, also  *)
(* when it spans the boundary at 8; it fails only when the underlying      *)
(* stream is short of those bytes.  A read that would go past end fails    *)
(* with an out-of-bounds error.                                            *)
C15_VirtualReadInterleaves ==
    VirtualReadCall =>
        LET q    == ToInt(ret.from)
            n    == ret.count
        IN  IF BLess(vc.end, BAdd(ret.from, B(n)))
            THEN ret.kind = "OutOfBounds" /\ vc.position = ret.from
            ELSE IF \/ ToInt(vc.offset) + q + n <= Len(data)
                    \/ q + n <= 8
                    \/ n = 0
            THEN /\ ret.kind = "Ok"
                 /\ Len(ret.payload) = n
                 /\ \A k \in 1..n : ret.payload[k] = LogicalByte(q + k - 1)
                 /\ vc.position = B(q + n)
            ELSE ret.kind = "Io"

\* a read spanned the boundary at 8 on a cursor whose size is not the size
\* the underlying bytes declare
C15_Witness ==
    /\ VirtualReadCall
    /\ ret.kind = "Ok"
    /\ BLess(ret.from, B(8))
    /\ ToInt(ret.from) + ret.count > 8
    /\ vc.size /= SizeField(data, input.origin)

\* what the bytes of the stream say where the splitter looks
FmtSize == ToInt(SizeField(data, input.origin + 12))
DataAt == input.origin + 12 + 8 + FmtSize
SplitterInput ==
    /\ ret.op = "split"
    /\ ret.from = Origin
    /\ Len(HeadBytes) = 12
    /\ ~BadHead
    /\ Len(data) >= input.origin + 20
    /\ SubSeq(data, input.origin + 13, input.origin + 16) = TagFmt
    /\ Len(data) >= DataAt + 8

\* the end of the data payload, by the size the data head declares
DataEnd == BAdd(B(DataAt + 8), SizeField(data, DataAt))

(* C16: on RIFF/size/WAVE/"fmt "/fmt-body the splitter fails with a format *)
(* error when the tag right after the fmt body is not "data"; otherwise    *)
(* appendix_start is the end of the data payload and the WAVE cursor has   *)
(* the declared size appendix_start - wave_start - 8 (a format error when  *)
(* that does not fit in 32 bits), so that its logical stream ends where    *)
(* the appendix starts, and read from position 0 it begins with "RIFF",    *)
(* that size and "WAVE".                                                   *)
C16_SplitterCorrectsSize ==
    /\ SplitterInput =>
          IF SubSeq(data, DataAt + 1, DataAt + 4) /= TagData
          THEN ret.kind = "Wave" /\ owner = "caller"
          ELSE IF ~FitsU32(BSub(DataEnd, B(input.origin + 8)))
          THEN ret.kind = "Wave" /\ owner = "caller"
          ELSE /\ ret.kind = "Ok"
               /\ owner = "splitter"
               /\ split.wave_start = Origin
               /\ split.appendix_start = DataEnd
               /\ split.size = BSub(DataEnd, B(input.origin + 8))
    /\ owner = "wave" =>
          /\ vc.size = split.size
          /\ BAdd(split.wave_start, vc.end) = split.appendix_start
          /\ (VirtualReadCall /\ ret.from = B(0) /\ ret.count = 12
                /\ ret.kind = "Ok")
               => ret.payload
                    = TagRIFF \o u32_to_le_bytes(split.size) \o TagWAVE

\* the first 12 bytes were read from the WAVE cursor of a container whose
\* declared size counts the bytes of an appendix
C16_Witness ==
    /\ owner = "wave"
    /\ VirtualReadCall /\ ret.from = B(0) /\ ret.count = 12
    /\ ret.kind = "Ok"
    /\ split.size /= SizeField(data, input.origin)
    /\ BLess(split.appendix_start, B(Len(data)))

----------------------------------------------------------------------------
\* the reader a call of new on the stream as it stands, at the position the
\* reader was constructed at, would give
FreshReader == WaveCursor_new(data, wave_start)

(* C17: when reset has returned, however far the scan before it went, the  *)
(* stream stands at the first chunk head, 12 bytes after the start of the  *)
(* container, and position, bounds and bytes are those of a reader freshly *)
(* constructed on the same bytes: the reads that follow, which depend on   *)
(* nothing else, return what the reads of a fresh reader return.           *)
C17_ResetMatchesFreshReader ==
    ret.op = "reset" =>
        /\ owner = "reader"
        /\ pos = BAdd(wave_start, B(12))
        /\ FreshReader.res = "Ok"
        /\ <<pos, head, wave_start, wave_end, first_chunk_pos>>
             = <<FreshReader.pos, FreshReader.head, FreshReader.wave_start,
                 FreshReader.wave_end, FreshReader.first_chunk_pos>>

\* a reader that had scanned to the end of a container with chunks was reset
C17_Witness ==
    /\ ret.op = "reset"
    /\ BLeq(wave_end, ret.from)
    /\ BLess(first_chunk_pos, ret.from)
    /\ input.origin > 0

----------------------------------------------------------------------------
\* a reader constructed at the start of a container whose chunks fill its
\* declared size
WellFormedScan == owner = "reader" /\ input.exact /\ wave_start = Origin

\* where the chunk after the i-th starts, or the container ends
NextHead(i) ==
    IF i < Len(AllChunks) THEN B(AllChunks[i + 1].at) ELSE wave_end

(* C18: on a well-formed container the reader always stands at a chunk     *)
(* head or at wave_end, first at the first chunk; a read_next_chunk(None)  *)
(* from the head of the i-th chunk returns that chunk (tag, declared size  *)
(* of payload) and moves the position, strictly forward, to the head of    *)
(* the next chunk, or to wave_end after the last: every chunk once, in     *)
(* file order, and exhaustion after as many calls as there are chunks.  On *)
(* any container a read_next_chunk (any filter) called at or past wave_end *)
(* returns not-found and leaves the position where it was.                 *)
C18_UnfilteredScanVisitsEachChunkOnce ==
    /\ WellFormedScan =>
          /\ first_chunk_pos = NextHead(0)
          /\ pos = wave_end \/ \E i \in DOMAIN AllChunks : pos = B(AllChunks[i].at)
    /\ (WellFormedScan /\ ReadCall /\ ret.filter = NoTag
          /\ BLess(ret.from, wave_end))
         => \E i \in DOMAIN AllChunks :
               /\ ret.from = B(AllChunks[i].at)
               /\ ret.kind = "Some"
               /\ ret.at = ret.from
               /\ ret.tag = AllChunks[i].tag
               /\ ret.payload = PayloadAt(AllChunks[i].at, AllChunks[i].size)
               /\ BLess(ret.from, pos)
               /\ pos = NextHead(i)
    /\ (ReadCall /\ BLeq(wave_end, ret.from))
         => (ret.kind = "None" /\ pos = ret.from)

\* a filtered read was made on a reader that had come to the end of a
\* container of three chunks or more
C18_Witness ==
    /\ WellFormedScan
    /\ ReadCall
    /\ ret.from = wave_end
    /\ ret.filter /= NoTag
    /\ ret.kind = "None"
    /\ Len(AllChunks) >= 3

----------------------------------------------------------------------------
CuesParsed == decoded.op = "parse_cue_points"

\* the little-endian value of the 4 bytes of the buffer after offset o
Le32At(o) ==
    <<bytes_in[o + 1] + 256 * bytes_in[o + 2],
      bytes_in[o + 3] + 256 * bytes_in[o + 4], 0, 0, 0>>

\* the record C19 says the 24 bytes after offset o decode to
FieldsAt(o) ==
    [id            |-> Le32At(o),
     position      |-> Le32At(o + 4),
     data_tag      |-> SubSeq(bytes_in, o + 9, o + 12),
     chunk_start   |-> Le32At(o + 12),
     block_start   |-> Le32At(o + 16),
     sample_offset |-> Le32At(o + 20)]

(* C19: for a buffer of length L >= 4 parse_cue_points returns exactly     *)
(* (L - 4) div 24 cue points without failing, the i-th (from 0) decoded    *)
(* from bytes [4 + 24i, 4 + 24i + 24) as the fields id, position,          *)
(* data_tag, chunk_start, block_start, sample_offset of 4 bytes each,      *)
(* whatever the count prefix says; the records the buffer was encoded from *)
(* come back, a trailing partial record is dropped.                        *)
C19_ParseReturnsWholeRecords ==
    (CuesParsed /\ Len(bytes_in) >= 4) =>
        /\ ~decoded.panic
        /\ Len(decoded.cues) = (Len(bytes_in) - 4) \div 24
        /\ \A i \in DOMAIN decoded.cues :
              decoded.cues[i] = FieldsAt(4 + 24 * (i - 1))
        /\ decoded.cues = entries.list

\* two records came back from a buffer whose count prefix says none and
\* which ends in a partial record
C19_Witness ==
    /\ CuesParsed
    /\ SubSeq(bytes_in, 1, 4) = <<0, 0, 0, 0>>
    /\ Len(decoded.cues) = 2
    /\ Len(bytes_in) = 4 + 48 + 23

----------------------------------------------------------------------------
\* the container head as the reader and the next append validate it, at the
\* offset the last successful append found it
HeadAfterAppends ==
    read_riff_head(data, B(appended[Len(appended)].start))

(* C20: every chunk size the append engine produces is even (4 + 24n for   *)
(* cues, 4 + the sum of 8 + 20 + the text length rounded up to even for    *)
(* labeled text), every successful append leaves an even RIFF size, the    *)
(* old one plus 8 plus the chunk size, and after any sequence of           *)
(* successful appends the container still passes the header validation of  *)
(* the reader and of the next append.                                      *)
C20_AppendsKeepContainerValid ==
    /\ \A i \in DOMAIN appended :
          /\ ExpectedChunkSize(appended[i]) % 2 = 0
          /\ ~IsOdd(appended[i].old_size)
          /\ ~IsOdd(appended[i].new_size)
          /\ appended[i].new_size
               = BAdd(appended[i].old_size,
                      B(8 + ExpectedChunkSize(appended[i])))
    /\ appended /= <<>> => HeadAfterAppends.res = "Ok"

----------------------------------------------------------------------------
(* C21: extract_labeled_text_from_list returns a list on every buffer      *)
(* (shorter than 4 bytes, a sub-chunk size larger than what is left, an    *)
(* odd size with no pad byte left) without an index out of bounds; each    *)
(* iteration of its loop starts with at least 8 bytes left and consumes at *)
(* least 8 of them, the iterations follow one another from byte 4 of the   *)
(* buffer, and the loop stops when fewer than 8 bytes remain.              *)
C21_ExtractIsTotal ==
    Extracted =>
        /\ ~decoded.panic
        /\ Len(decoded.ltxts) <= Len(decoded.steps)
        /\ Len(bytes_in) < 12 => decoded.steps = <<>> /\ decoded.ltxts = <<>>
        /\ Len(bytes_in) >= 12 =>
              /\ decoded.steps /= <<>>
              /\ decoded.steps[1].before = Len(bytes_in) - 4
              /\ decoded.steps[Len(decoded.steps)].after < 8
        /\ \A i \in DOMAIN decoded.steps :
              /\ decoded.steps[i].before >= 8
              /\ decoded.steps[i].after >= 0
              /\ decoded.steps[i].before - decoded.steps[i].after >= 8
              /\ i > 1 => decoded.steps[i].before = decoded.steps[i - 1].after

\* three iterations, the last over an ltxt head that declares the largest
\* u32 with one byte left, after an entry of odd size
C21_Witness ==
    /\ Extracted
    /\ Len(decoded.steps) = 3
    /\ entries.list[2].size % 2 = 1
    /\ entries.tail = TagLtxt \o <<255, 255, 255, 255>> \o <<9>>
    /\ decoded.steps[3] = [before |-> 9, after |-> 0]

----------------------------------------------------------------------------
CuePayloadParsed == ret.op = "parse_cue_points"

(* C22: parse_cue_points does not abort on any payload read_next_chunk     *)
(* returned for a "cue " chunk, and on a payload shorter than the 4-byte   *)
(* count prefix (declared chunk size 0 to 3) it returns the empty list.    *)
C22_CuePayloadNeverAborts ==
    CuePayloadParsed =>
        /\ ret.kind = "Ok"
        /\ Len(ret.payload) < 4 => ret.cue_count = 0

====
